---------------------------- MODULE Spec2Model ----------------------------
(***************************************************************************)
(* State-machine model of the voyageai client: one operation invoked on a  *)
(* freshly constructed VoyageAiClient, its spawned background task, the    *)
(* oneshot handoff or bounded mpsc channel that carries its results, and   *)
(* the rate limiters the task consults (Spec); and concurrent calls of one *)
(* client passing the rate limiter's critical sections (LimiterSpec).      *)
(***************************************************************************)
EXTENDS Integers, Sequences, FiniteSets, TLC

(***************************************************************************)
(* Bounds of the model.                                                    *)
(***************************************************************************)
MaxDocs == 2
MaxResults == 2
LongExtra == 2
MaxOps == 3
MaxTime == 3
MaxDim == 2
MaxBlocks == 2

(***************************************************************************)
(* Program constants.                                                      *)
(***************************************************************************)
ChannelCapacity == 16
StatusOk == 200
StatusUnauthorized == 401
StatusForbidden == 403
PlaceholderValue == 0
TicksPerSecond == 2
WindowLength == 3
RerankLimit == 3
EmbeddingsLimit == 3

(***************************************************************************)
(* Texts are sequences of characters.                                      *)
(***************************************************************************)
IsAlnum(c) == c \in {"a", "b"}

\* Number of maximal runs of alphanumeric characters in text.
RECURSIVE tokenizeFrom(_, _, _)
tokenizeFrom(text, i, inToken) ==
    IF i > Len(text) THEN 0
    ELSE IF IsAlnum(text[i])
         THEN (IF inToken THEN 0 ELSE 1) + tokenizeFrom(text, i + 1, TRUE)
         ELSE tokenizeFrom(text, i + 1, FALSE)

tokenize(text) == tokenizeFrom(text, 1, FALSE)

RECURSIVE SumSeq(_)
SumSeq(s) == IF s = <<>> THEN 0 ELSE Head(s) + SumSeq(Tail(s))

\* The k-th document of the pool: k words separated by blanks.
DocText(k) == [i \in 1..(2 * k - 1) |-> IF i % 2 = 1 THEN "a" ELSE " "]

DocLists == { [k \in 1..n |-> DocText(k)] : n \in 0..MaxDocs }

Queries == { <<>>, <<"b">> }

Scores == {1, 2}

TokenCounts == {1, 4}

Vectors == { <<1>>, <<2>> }

(***************************************************************************)
(* Values: Option, Result and VoyageError.                                 *)
(***************************************************************************)
None == [kind |-> "None"]
Ok(v) == [kind |-> "Ok", value |-> v]
Err(e) == [kind |-> "Err", error |-> e]

Unauthorized == [variant |-> "Unauthorized"]
Forbidden(text) == [variant |-> "Forbidden", text |-> text]
ApiError(status, text) == [variant |-> "ApiError", status |-> status, text |-> text]
JsonError(text) == [variant |-> "JsonError", text |-> text]
Other(msg) == [variant |-> "Other", msg |-> msg]
FromReqwestError == [variant |-> "From<reqwest::Error>"]
FromSerdeError == [variant |-> "From<serde_json::Error>"]
BoxError(e) == [variant |-> "Box<dyn Error>", inner |-> e]


(***************************************************************************)
(* RateLimiter: two pools, each a fixed window with a usage counter.       *)
(***************************************************************************)
NewPool == [used |-> 0, windowStart |-> 0]

RateLimiterNew == [embeddings |-> NewPool, reranking |-> NewPool]

\* Roll the window of pool p when it has expired at time t.
RollWindow(p, t) ==
    IF t - p.windowStart >= WindowLength
    THEN [used |-> 0, windowStart |-> t]
    ELSE p

\* Mutant: a refused check returns the time elapsed in the window instead of
\* the time remaining.
WaitForElapsed(p, limit, estimate, t) ==
    IF p.used + estimate <= limit THEN 0
    ELSE t - p.windowStart

\* The wait check returns for an estimate against the rolled pool p at time t.
WaitFor(p, limit, estimate, t) ==
    IF p.used + estimate <= limit THEN 0
    ELSE WindowLength - (t - p.windowStart)

check_reranking_limit(limiter, estimate, t) ==
    LET p == RollWindow(limiter.reranking, t)
    IN [limiter |-> [limiter EXCEPT !.reranking = p],
        wait |-> WaitFor(p, RerankLimit, estimate, t)]

check_embeddings_limit(limiter, estimate, t) ==
    LET p == RollWindow(limiter.embeddings, t)
    IN [limiter |-> [limiter EXCEPT !.embeddings = p],
        wait |-> WaitFor(p, EmbeddingsLimit, estimate, t)]

update_reranking_usage(limiter, actual, t) ==
    LET p == RollWindow(limiter.reranking, t)
    IN [limiter EXCEPT !.reranking = [p EXCEPT !.used = @ + actual]]

update_embeddings_usage(limiter, actual, t) ==
    LET p == RollWindow(limiter.embeddings, t)
    IN [limiter EXCEPT !.embeddings = [p EXCEPT !.used = @ + actual]]

\* Duration::as_secs: whole seconds of a duration given in ticks.
as_secs(d) == d \div TicksPerSecond

(***************************************************************************)
(* Requests and server outcomes.                                           *)
(***************************************************************************)
RerankOps == {"find_similar_documents", "most_similar_document"}
EmbedOps == {"embed", "embed_batch", "embed_stream", "embeddings"}
StreamOps == {"find_similar_documents", "embed_stream"}
HandleOps == {"most_similar_document", "embed", "embed_batch", "embeddings", "search"}

\* RerankRequest::new: an empty query or an empty document list is refused.
RerankRequestNew(query, documents) ==
    IF query = <<>> \/ documents = <<>>
    THEN Err([variant |-> "ValidationError"])
    ELSE Ok([query |-> query, documents |-> documents])

Single(text) == [kind |-> "Single", texts |-> <<text>>]
Multiple(texts) == [kind |-> "Multiple", texts |-> texts]

\* DefaultRerankClient::estimate_tokens
rerank_estimate_tokens(request) ==
    tokenize(request.query)
    + SumSeq([i \in 1..Len(request.documents) |-> tokenize(request.documents[i])])

\* Client::estimate_tokens: one token per four bytes, rounded up, plus overhead.
CeilQuarter(n) == (n + 3) \div 4

embeddings_estimate_tokens(request) ==
    IF request.input.kind = "Single"
    THEN CeilQuarter(Len(request.input.texts[1])) + 2
    ELSE SumSeq([i \in 1..Len(request.input.texts) |->
                    CeilQuarter(Len(request.input.texts[i]))])
         + 2 * Len(request.input.texts)

\* What the transport can answer: a transport error, or a status with a body.
TransportError == [kind |-> "transport_error"]
Response(status, parses, data, total_tokens) ==
    [kind |-> "response", status |-> status, parses |-> parses,
     data |-> data, total_tokens |-> total_tokens]

\* A status the clients have no arm for.
OtherStatuses == {500}

FailureOutcomes ==
    {TransportError, Response(StatusOk, FALSE, <<>>, 0)}
    \cup {Response(s, FALSE, <<>>, 0) :
            s \in {StatusUnauthorized, StatusForbidden} \cup OtherStatuses}

RerankResults == [index : 0..MaxDocs, relevance_score : Scores]

LongRerankData ==
    [k \in 1..(ChannelCapacity + LongExtra) |-> [index |-> 0, relevance_score |-> 1]]

RerankData ==
    UNION {[1..n -> RerankResults] : n \in 0..MaxResults} \cup {LongRerankData}

RerankOutcomes ==
    FailureOutcomes
    \cup {Response(StatusOk, TRUE, d, t) : d \in RerankData, t \in TokenCounts}

EmbeddingData(v, i) == [object |-> "embedding", embedding |-> v, index |-> i]

EmbeddingsDataLists ==
    UNION {{[k \in 1..n |-> EmbeddingData(f[k], k - 1)] : f \in [1..n -> Vectors]} :
             n \in 0..MaxResults}

EmbeddingsOutcomes ==
    FailureOutcomes
    \cup {Response(StatusOk, TRUE, d, t) : d \in EmbeddingsDataLists, t \in TokenCounts}

\* Time that passes between the client's construction and the call: none, or
\* all but the last tick of the limiter's window.
CallDelays == {0, WindowLength - 1}

\* Time the transport takes to answer: none, or a whole window.
TransportDelays == {0, WindowLength}

\* SearchClient::search is opaque: it returns Ok or Err, or panics.
SearchOutcomes == {Ok("results"), Err(Other("search failed")), [kind |-> "panic"]}

(***************************************************************************)
(* Concurrent calls of one client.                                         *)
(***************************************************************************)
\* The two operation classes: rerank calls and embedding calls.
Classes == {"rerank", "embed"}

\* The concurrent calls.
Workers == {1, 2}

\* Estimates of the concurrent calls: one within the limit, one above it.
Estimates == {2, 4}

\* A call that has not started.
IdleWorker ==
    [pc |-> "idle", cls |-> "rerank", estimate |-> 0, actual |-> 0, wait |-> 0,
     t |-> 0, snap |-> NewPool, rolled |-> FALSE]

\* No call of embed_code or embed_markdown has been made.
IdleCodeTask ==
    [pc |-> "idle", entry |-> "none", blocks |-> <<>>, i |-> 1, text_embedding |-> None,
     calls |-> <<>>, embeddings |-> <<>>, result |-> None]

(***************************************************************************)
(* State.                                                                  *)
(***************************************************************************)
VARIABLES
    op,             \* the operation invoked, "none" before the call
    caller,         \* idle, holding, resolved, ended, dropped, panicked
    documents,      \* the list the caller supplied (input_docs / texts)
    request,        \* the request the background task owns
    task,           \* none, check, sleep, send, await, deliver, push, done, panicked
    wait_time,      \* what the limiter's check returned
    outcome,        \* what the transport answered
    performed,      \* return value of perform_rerank / create_embedding
    next,           \* 1-based position of the push loop in performed data
    capacity,       \* capacity of the mpsc channel
    chan,           \* items buffered in the mpsc channel
    delivered,      \* items the stream has yielded to the consumer
    send_failed,    \* number of tx.send calls that returned Err
    result,         \* the value the task computed for its oneshot
    sends,          \* number of oneshot tx.send calls
    slot,           \* value stored in the oneshot channel
    handle,         \* what the awaited handle resolved to
    resolutions,    \* number of times the handle resolved
    logged,         \* number of log::error! calls of the task
    transport_calls,\* number of HTTP requests issued
    rerank_limiter, \* RateLimiter shared by the rerank client
    embed_limiter,  \* RateLimiter owned by the embeddings client
    now,            \* the clock, in ticks
    workers,        \* concurrent calls of one client: position and locals of each
    lock,           \* per operation class, the call inside the pool's critical section
    serial_pool,    \* per operation class, its pool had every check and update run alone
    refused,        \* per operation class, the last check that returned a nonzero wait
    ops_started,    \* number of calls started so far
    vec_a,          \* first argument of cosine_similarity
    vec_b,          \* second argument of cosine_similarity
    cosine_result,  \* what cosine_similarity returned, None before the call
    code_task       \* a call of embed_code or embed_markdown: position and locals

vars == <<op, caller, documents, request, task, wait_time, outcome, performed,
          next, capacity, chan, delivered, send_failed, result, sends, slot,
          handle, resolutions, logged, transport_calls, rerank_limiter,
          embed_limiter, now, workers, lock, serial_pool, refused, ops_started,
          vec_a, vec_b, cosine_result, code_task>>

callVars == <<op, caller, documents, request, task, capacity, now>>
taskVars == <<wait_time, outcome, performed, next, send_failed, result, sends,
              logged, transport_calls, rerank_limiter, embed_limiter>>
pipeVars == <<chan, delivered, slot, handle, resolutions>>
pureVars == <<vec_a, vec_b, cosine_result, code_task>>
limVars == <<workers, lock, serial_pool, refused, ops_started, pureVars>>

\* The client after construction.
ClientInit ==
    /\ op = "none"
    /\ caller = "idle"
    /\ documents = <<>>
    /\ request = None
    /\ task = "none"
    /\ wait_time = 0
    /\ outcome = None
    /\ performed = None
    /\ next = 1
    /\ capacity = 0
    /\ chan = <<>>
    /\ delivered = <<>>
    /\ send_failed = 0
    /\ result = None
    /\ sends = 0
    /\ slot = None
    /\ handle = None
    /\ resolutions = 0
    /\ logged = 0
    /\ transport_calls = 0
    /\ rerank_limiter = RateLimiterNew
    /\ embed_limiter = RateLimiterNew
    /\ now = 0
    /\ workers = [w \in Workers |-> IdleWorker]
    /\ lock = [c \in Classes |-> 0]
    /\ serial_pool = [c \in Classes |-> NewPool]
    /\ refused = [c \in Classes |-> None]
    /\ ops_started = 0

Init ==
    /\ ClientInit
    /\ vec_a = <<>>
    /\ vec_b = <<>>
    /\ cosine_result = None
    /\ code_task = IdleCodeTask

(***************************************************************************)
(* Channels.                                                               *)
(***************************************************************************)
\* The sending half is gone once the task has returned or unwound.
TxDropped == task \in {"done", "panicked"}

\* The receiving half is gone once the caller has dropped the handle or stream.
RxDropped == caller = "dropped"

\* Mutant: a poll that finds no value yet reports the sender as gone.
PollReceiverEager(s, txDropped) ==
    IF s # None THEN [ready |-> TRUE, value |-> Ok(s)]
    ELSE [ready |-> TRUE, value |-> Err("RecvError")]

\* Mutant: a poll does not notice that the sender is gone.
PollReceiverHangs(s, txDropped) ==
    IF s # None THEN [ready |-> TRUE, value |-> Ok(s)]
    ELSE [ready |-> FALSE, value |-> None]

\* oneshot::Receiver::poll
PollReceiver(s, txDropped) ==
    IF s # None THEN [ready |-> TRUE, value |-> Ok(s)]
    ELSE IF txDropped THEN [ready |-> TRUE, value |-> Err("RecvError")]
    ELSE [ready |-> FALSE, value |-> None]

CanceledMessage(o) ==
    CASE o = "most_similar_document" -> "Similarity task canceled"
      [] o = "embed" -> "Embedding task canceled"
      [] o = "embed_batch" -> "Batch embedding task canceled"
      [] o = "embeddings" -> "Embedding task canceled"
      [] o = "search" -> "Search task canceled"

\* The value a handle's poll is ready with: the task's result as sent, or
\* the 'task canceled' error when the sender is gone.
PollOutput(o, received) ==
    IF received.kind = "Ok" THEN received.value
    ELSE IF o \in {"embeddings", "search"}
         THEN Err(BoxError(Other(CanceledMessage(o))))
         ELSE Err(Other(CanceledMessage(o)))

\* Mutant: the task unwraps the send, which panics when the receiver is gone.
OneshotSendUnwrap(value) ==
    /\ result' = value
    /\ sends' = sends + 1
    /\ slot' = IF RxDropped THEN slot ELSE value
    /\ task' = IF RxDropped THEN "panicked" ELSE "done"

\* oneshot::Sender::send: stores the value unless the receiver is gone.
OneshotSend(value) ==
    /\ result' = value
    /\ sends' = sends + 1
    /\ slot' = IF RxDropped THEN slot ELSE value
    /\ task' = "done"

(***************************************************************************)
(* The caller's side: invoking an operation.                               *)
(***************************************************************************)
\* Mutant: the work is not started until the handle is polled.
SpawnLazy(o, docs, req, cap) ==
    /\ op' = o
    /\ documents' = docs
    /\ request' = req
    /\ capacity' = cap
    /\ caller' = "holding"
    /\ task' = "none"

Spawn(o, docs, req, cap) ==
    /\ op' = o
    /\ documents' = docs
    /\ request' = req
    /\ capacity' = cap
    /\ caller' = "holding"
    /\ task' = "check"

\* A panic in the caller before anything is spawned.
CallerPanics(o, docs) ==
    /\ op' = o
    /\ documents' = docs
    /\ caller' = "panicked"
    /\ UNCHANGED <<request, capacity, task>>

\* DefaultRerankClient::create_request
create_request(query, docs) == RerankRequestNew(query, docs)

find_similar_documents(query, docs) ==
    /\ caller = "idle"
    /\ \E d \in CallDelays : now' = now + d
    /\ LET req == create_request(query, docs)
       IN IF req.kind = "Err"
          THEN CallerPanics("find_similar_documents", docs)
          ELSE Spawn("find_similar_documents", docs, req.value, ChannelCapacity)
    /\ UNCHANGED <<taskVars, pipeVars>>
    /\ UNCHANGED limVars

most_similar_document(query, docs) ==
    /\ caller = "idle"
    /\ \E d \in CallDelays : now' = now + d
    /\ LET req == create_request(query, docs)
       IN IF req.kind = "Err"
          THEN CallerPanics("most_similar_document", docs)
          ELSE Spawn("most_similar_document", docs, req.value, 0)
    /\ UNCHANGED <<taskVars, pipeVars>>
    /\ UNCHANGED limVars

EmbeddingsRequest(input) == [input |-> input]

embed(text) ==
    /\ caller = "idle"
    /\ \E d \in CallDelays : now' = now + d
    /\ Spawn("embed", <<text>>, EmbeddingsRequest(Single(text)), 0)
    /\ UNCHANGED <<taskVars, pipeVars>>
    /\ UNCHANGED limVars

embed_batch(texts) ==
    /\ caller = "idle"
    /\ \E d \in CallDelays : now' = now + d
    /\ Spawn("embed_batch", texts, EmbeddingsRequest(Multiple(texts)), 0)
    /\ UNCHANGED <<taskVars, pipeVars>>
    /\ UNCHANGED limVars

\* mpsc::channel(texts.len()) panics on a capacity of zero.
embed_stream(texts) ==
    /\ caller = "idle"
    /\ \E d \in CallDelays : now' = now + d
    /\ IF Len(texts) = 0
       THEN CallerPanics("embed_stream", texts)
       ELSE Spawn("embed_stream", texts, EmbeddingsRequest(Multiple(texts)), Len(texts))
    /\ UNCHANGED <<taskVars, pipeVars>>
    /\ UNCHANGED limVars

embeddings(req) ==
    /\ caller = "idle"
    /\ \E d \in CallDelays : now' = now + d
    /\ Spawn("embeddings", req.input.texts, req, 0)
    /\ UNCHANGED <<taskVars, pipeVars>>
    /\ UNCHANGED limVars

search ==
    /\ caller = "idle"
    /\ \E d \in CallDelays : now' = now + d
    /\ op' = "search"
    /\ caller' = "holding"
    /\ task' = "await"
    /\ UNCHANGED <<documents, request, capacity, taskVars, pipeVars>>
    /\ UNCHANGED limVars

(***************************************************************************)
(* The background task: perform_rerank and create_embedding.               *)
(***************************************************************************)
AfterCheck(wait) == IF as_secs(wait) > 0 THEN "sleep" ELSE "send"

perform_rerank_check ==
    /\ task = "check"
    /\ op \in RerankOps
    /\ LET c == check_reranking_limit(rerank_limiter, rerank_estimate_tokens(request), now)
       IN /\ rerank_limiter' = c.limiter
          /\ wait_time' = c.wait
          /\ task' = AfterCheck(c.wait)
    /\ UNCHANGED <<op, caller, documents, request, capacity, now, outcome, performed,
                   next, send_failed, result, sends, logged, transport_calls,
                   embed_limiter, pipeVars>>
    /\ UNCHANGED limVars

create_embedding_check ==
    /\ task = "check"
    /\ op \in EmbedOps
    /\ LET c == check_embeddings_limit(embed_limiter, embeddings_estimate_tokens(request), now)
       IN /\ embed_limiter' = c.limiter
          /\ wait_time' = c.wait
          /\ task' = AfterCheck(c.wait)
    /\ UNCHANGED <<op, caller, documents, request, capacity, now, outcome, performed,
                   next, send_failed, result, sends, logged, transport_calls,
                   rerank_limiter, pipeVars>>
    /\ UNCHANGED limVars

\* sleep(wait_time).await
Sleep ==
    /\ task = "sleep"
    /\ now' = now + wait_time
    /\ task' = "send"
    /\ UNCHANGED <<op, caller, documents, request, capacity, taskVars, pipeVars>>
    /\ UNCHANGED limVars

\* client.post(url).send(): the request leaves.
SendRequest ==
    /\ task = "send"
    /\ transport_calls' = transport_calls + 1
    /\ task' = "await"
    /\ UNCHANGED <<op, caller, documents, request, capacity, now, wait_time, outcome,
                   performed, next, send_failed, result, sends, logged,
                   rerank_limiter, embed_limiter, pipeVars>>
    /\ UNCHANGED limVars

Body == "body"

\* perform_rerank's match on the transport's answer.
RerankResult(o) ==
    IF o.kind = "transport_error" THEN Err(FromReqwestError)
    ELSE IF o.status = StatusOk
         THEN IF o.parses
              THEN Ok([data |-> o.data, usage |-> [total_tokens |-> o.total_tokens]])
              ELSE Err(JsonError("parse error"))
    ELSE IF o.status = StatusUnauthorized THEN Err(Unauthorized)
    ELSE Err(ApiError(o.status, Body))

\* Mutant: an empty data list is passed on as it is.
EmbeddingResultNoPlaceholder(o) ==
    IF o.kind = "transport_error" THEN Err(FromReqwestError)
    ELSE IF o.status = StatusOk
         THEN IF o.parses
              THEN Ok([data |-> o.data, usage |-> [total_tokens |-> o.total_tokens]])
              ELSE Err(FromSerdeError)
    ELSE IF o.status = StatusUnauthorized THEN Err(Unauthorized)
    ELSE IF o.status = StatusForbidden THEN Err(Forbidden(Body))
    ELSE Err(ApiError(o.status, Body))

\* create_embedding's match on the transport's answer.
EmbeddingResult(o) ==
    IF o.kind = "transport_error" THEN Err(FromReqwestError)
    ELSE IF o.status = StatusOk
         THEN IF o.parses
              THEN Ok([data |-> IF o.data = <<>>
                                THEN <<EmbeddingData(<<PlaceholderValue>>, 0)>>
                                ELSE o.data,
                       usage |-> [total_tokens |-> o.total_tokens]])
              ELSE Err(FromSerdeError)
    ELSE IF o.status = StatusUnauthorized THEN Err(Unauthorized)
    ELSE IF o.status = StatusForbidden THEN Err(Forbidden(Body))
    ELSE Err(ApiError(o.status, Body))

\* Mutant: the response is handed on without its usage being recorded.
perform_rerank_respond_no_update ==
    /\ task = "await"
    /\ op \in RerankOps
    /\ \E o \in RerankOutcomes, d \in TransportDelays :
         /\ now' = now + d
         /\ outcome' = o
         /\ performed' = RerankResult(o)
    /\ task' = "deliver"
    /\ UNCHANGED <<op, caller, documents, request, capacity, wait_time, next,
                   send_failed, result, sends, logged, transport_calls,
                   rerank_limiter, embed_limiter, pipeVars>>
    /\ UNCHANGED limVars

\* Mutant: the usage is recorded only while the consumer still holds the
\* receiving end.
perform_rerank_respond_unless_dropped ==
    /\ task = "await"
    /\ op \in RerankOps
    /\ \E o \in RerankOutcomes, d \in TransportDelays :
         /\ now' = now + d
         /\ outcome' = o
         /\ performed' = RerankResult(o)
         /\ rerank_limiter' =
              IF RerankResult(o).kind = "Ok" /\ caller # "dropped"
              THEN update_reranking_usage(rerank_limiter, o.total_tokens, now + d)
              ELSE rerank_limiter
    /\ task' = "deliver"
    /\ UNCHANGED <<op, caller, documents, request, capacity, wait_time, next,
                   send_failed, result, sends, logged, transport_calls,
                   embed_limiter, pipeVars>>
    /\ UNCHANGED limVars

perform_rerank_respond ==
    /\ task = "await"
    /\ op \in RerankOps
    /\ \E o \in RerankOutcomes, d \in TransportDelays :
         /\ now' = now + d
         /\ outcome' = o
         /\ performed' = RerankResult(o)
         /\ rerank_limiter' =
              IF RerankResult(o).kind = "Ok"
              THEN update_reranking_usage(rerank_limiter, o.total_tokens, now + d)
              ELSE rerank_limiter
    /\ task' = "deliver"
    /\ UNCHANGED <<op, caller, documents, request, capacity, wait_time, next,
                   send_failed, result, sends, logged, transport_calls,
                   embed_limiter, pipeVars>>
    /\ UNCHANGED limVars

\* Mutant: a request that failed is charged with its estimate.
create_embedding_respond_charges_failure ==
    /\ task = "await"
    /\ op \in EmbedOps
    /\ \E o \in EmbeddingsOutcomes, d \in TransportDelays :
         /\ now' = now + d
         /\ outcome' = o
         /\ performed' = EmbeddingResult(o)
         /\ embed_limiter' =
              update_embeddings_usage(embed_limiter,
                                      IF EmbeddingResult(o).kind = "Ok"
                                      THEN o.total_tokens
                                      ELSE embeddings_estimate_tokens(request),
                                      now + d)
    /\ task' = "deliver"
    /\ UNCHANGED <<op, caller, documents, request, capacity, wait_time, next,
                   send_failed, result, sends, logged, transport_calls,
                   rerank_limiter, pipeVars>>
    /\ UNCHANGED limVars

\* Mutant: a failed embeddings request is issued a second time.
create_embedding_respond_retry ==
    /\ task = "await"
    /\ op \in EmbedOps
    /\ \E o \in EmbeddingsOutcomes, d \in TransportDelays :
         /\ now' = now + d
         /\ outcome' = o
         /\ performed' = EmbeddingResult(o)
         /\ embed_limiter' =
              IF EmbeddingResult(o).kind = "Ok"
              THEN update_embeddings_usage(embed_limiter, o.total_tokens, now + d)
              ELSE embed_limiter
         /\ task' = IF EmbeddingResult(o).kind = "Err" /\ transport_calls < 2
                    THEN "send" ELSE "deliver"
    /\ UNCHANGED <<op, caller, documents, request, capacity, wait_time, next,
                   send_failed, result, sends, logged, transport_calls,
                   rerank_limiter, pipeVars>>
    /\ UNCHANGED limVars

create_embedding_respond ==
    /\ task = "await"
    /\ op \in EmbedOps
    /\ \E o \in EmbeddingsOutcomes, d \in TransportDelays :
         /\ now' = now + d
         /\ outcome' = o
         /\ performed' = EmbeddingResult(o)
         /\ embed_limiter' =
              IF EmbeddingResult(o).kind = "Ok"
              THEN update_embeddings_usage(embed_limiter, o.total_tokens, now + d)
              ELSE embed_limiter
    /\ task' = "deliver"
    /\ UNCHANGED <<op, caller, documents, request, capacity, wait_time, next,
                   send_failed, result, sends, logged, transport_calls,
                   rerank_limiter, pipeVars>>
    /\ UNCHANGED limVars

(***************************************************************************)
(* The background task: handing the results over.                          *)
(***************************************************************************)
\* Mutant: the document is looked up by rank instead of the server's index.
DocumentSimilarityByRank(rank, r, input_docs) ==
    [rank |-> rank, similarity |-> r.relevance_score,
     document |-> IF rank < Len(input_docs) THEN input_docs[rank + 1]
                  ELSE input_docs[r.index + 1]]

\* The item built for the result r at position rank of the ranked list.
DocumentSimilarity(rank, r, input_docs) ==
    [rank |-> rank, similarity |-> r.relevance_score, document |-> input_docs[r.index + 1]]

\* input_docs[result.index] panics when the index is out of bounds.
IndexInBounds(r, input_docs) == r.index < Len(input_docs)

\* Mutant: the stream numbers its items from one.
StreamItemRankFromOne(o, data, k, input_docs) ==
    IF o = "find_similar_documents"
    THEN DocumentSimilarity(k, data[k], input_docs)
    ELSE data[k].embedding

\* The item the push loop builds at position k (1-based) of the response data.
StreamItem(o, data, k, input_docs) ==
    IF o = "find_similar_documents"
    THEN DocumentSimilarity(k - 1, data[k], input_docs)
    ELSE data[k].embedding

\* Mutant: an unbounded channel, a send never waits.
SendOutcomeUnbounded(buffer, cap, rxDropped) ==
    IF rxDropped THEN "closed" ELSE "sent"

\* Mutant: a send does not notice that the receiver is gone.
SendOutcomeIgnoresClose(buffer, cap, rxDropped) ==
    IF Len(buffer) < cap THEN "sent" ELSE "full"

\* mpsc::Sender::send: Err when the receiver is gone, waits while the buffer is full.
SendOutcome(buffer, cap, rxDropped) ==
    IF rxDropped THEN "closed"
    ELSE IF Len(buffer) < cap THEN "sent"
    ELSE "full"

\* Mutant: on a failed call the task pushes a default item.
stream_deliver_default_item ==
    /\ task = "deliver"
    /\ op \in StreamOps
    /\ IF performed.kind = "Ok"
       THEN /\ task' = "push"
            /\ next' = 1
            /\ UNCHANGED <<logged, chan>>
       ELSE /\ task' = "done"
            /\ logged' = logged + 1
            /\ chan' = IF RxDropped THEN chan ELSE Append(chan, <<>>)
            /\ UNCHANGED next
    /\ UNCHANGED <<op, caller, documents, request, capacity, now, wait_time, outcome,
                   performed, send_failed, result, sends, transport_calls,
                   rerank_limiter, embed_limiter, delivered, slot, handle, resolutions>>
    /\ UNCHANGED limVars

\* The match on the call's result in a streaming task.
stream_deliver ==
    /\ task = "deliver"
    /\ op \in StreamOps
    /\ IF performed.kind = "Ok"
       THEN /\ task' = "push"
            /\ next' = 1
            /\ UNCHANGED logged
       ELSE /\ task' = "done"
            /\ logged' = logged + 1
            /\ UNCHANGED next
    /\ UNCHANGED <<op, caller, documents, request, capacity, now, wait_time, outcome,
                   performed, send_failed, result, sends, transport_calls,
                   rerank_limiter, embed_limiter, pipeVars>>
    /\ UNCHANGED limVars

\* Mutant: the channel hands items over last in, first out.
EnqueueFront(buffer, item) == <<item>> \o buffer

\* The channel queues what was sent behind what is already buffered.
Enqueue(buffer, item) == Append(buffer, item)

\* One iteration of the push loop, or its end.
\* Mutant: a result whose index is out of bounds is skipped.
stream_push_skips_bad_index ==
    /\ task = "push"
    /\ op \in StreamOps
    /\ LET data == performed.value.data
       IN IF next > Len(data)
          THEN /\ task' = "done"
               /\ UNCHANGED <<next, chan, send_failed>>
          ELSE IF op = "find_similar_documents" /\ ~IndexInBounds(data[next], documents)
          THEN /\ next' = next + 1
               /\ UNCHANGED <<task, chan, send_failed>>
          ELSE LET sent == SendOutcome(chan, capacity, RxDropped)
               IN /\ sent # "full"
                  /\ IF sent = "closed"
                     THEN /\ send_failed' = send_failed + 1
                          /\ task' = "done"
                          /\ UNCHANGED <<next, chan>>
                     ELSE /\ chan' = Enqueue(chan, StreamItem(op, data, next, documents))
                          /\ next' = next + 1
                          /\ UNCHANGED <<task, send_failed>>
    /\ UNCHANGED <<op, caller, documents, request, capacity, now, wait_time, outcome,
                   performed, result, sends, logged, transport_calls,
                   rerank_limiter, embed_limiter, delivered, slot, handle, resolutions>>
    /\ UNCHANGED limVars

stream_push ==
    /\ task = "push"
    /\ op \in StreamOps
    /\ LET data == performed.value.data
       IN IF next > Len(data)
          THEN /\ task' = "done"
               /\ UNCHANGED <<next, chan, send_failed>>
          ELSE IF op = "find_similar_documents" /\ ~IndexInBounds(data[next], documents)
          THEN /\ task' = "panicked"
               /\ UNCHANGED <<next, chan, send_failed>>
          ELSE LET sent == SendOutcome(chan, capacity, RxDropped)
               IN /\ sent # "full"
                  /\ IF sent = "closed"
                     THEN /\ send_failed' = send_failed + 1
                          /\ task' = "done"
                          /\ UNCHANGED <<next, chan>>
                     ELSE /\ chan' = Enqueue(chan, StreamItem(op, data, next, documents))
                          /\ next' = next + 1
                          /\ UNCHANGED <<task, send_failed>>
    /\ UNCHANGED <<op, caller, documents, request, capacity, now, wait_time, outcome,
                   performed, result, sends, logged, transport_calls,
                   rerank_limiter, embed_limiter, delivered, slot, handle, resolutions>>
    /\ UNCHANGED limVars

\* Mutant: an empty ranked list resolves to a default item.
MostSimilarResultDefault(p, input_docs) ==
    IF p.kind = "Ok"
    THEN IF p.value.data # <<>>
         THEN Ok(DocumentSimilarity(0, Head(p.value.data), input_docs))
         ELSE Ok([rank |-> 0, similarity |-> 0, document |-> <<>>])
    ELSE p

\* Mutant: the entry with the highest score is taken instead of the first.
MostSimilarResultBestScore(p, input_docs) ==
    IF p.kind = "Ok"
    THEN IF p.value.data # <<>>
         THEN LET d == p.value.data
                  best == CHOOSE k \in 1..Len(d) :
                            /\ IndexInBounds(d[k], input_docs) \/ k = 1
                            /\ \A j \in 1..Len(d) :
                                 (IndexInBounds(d[j], input_docs) \/ j = 1)
                                 => d[j].relevance_score <= d[k].relevance_score
              IN Ok(DocumentSimilarity(0, d[best], input_docs))
         ELSE Err(Other("No matching documents found"))
    ELSE p

\* Mutant: an error of the call is replaced by the 'no match' error.
MostSimilarResultSwallowsError(p, input_docs) ==
    IF p.kind = "Ok" /\ p.value.data # <<>>
    THEN Ok(DocumentSimilarity(0, Head(p.value.data), input_docs))
    ELSE Err(Other("No matching documents found"))

\* The value most_similar_document's task computes from the call's result.
MostSimilarResult(p, input_docs) ==
    IF p.kind = "Ok"
    THEN IF p.value.data # <<>>
         THEN Ok(DocumentSimilarity(0, Head(p.value.data), input_docs))
         ELSE Err(Other("No matching documents found"))
    ELSE p

most_similar_deliver ==
    /\ task = "deliver"
    /\ op = "most_similar_document"
    /\ IF /\ performed.kind = "Ok"
          /\ performed.value.data # <<>>
          /\ ~IndexInBounds(Head(performed.value.data), documents)
       THEN /\ task' = "panicked"
            /\ UNCHANGED <<result, sends, slot>>
       ELSE OneshotSend(MostSimilarResult(performed, documents))
    /\ UNCHANGED <<op, caller, documents, request, capacity, now, wait_time, outcome,
                   performed, next, send_failed, logged, transport_calls,
                   rerank_limiter, embed_limiter, chan, delivered, handle, resolutions>>
    /\ UNCHANGED limVars

\* embed: the first vector of the response.
EmbedResult(p) ==
    IF p.kind = "Ok" THEN Ok(p.value.data[1].embedding) ELSE p

\* embed_batch: every vector of the response, in the response's order.
EmbedBatchResult(p) ==
    IF p.kind = "Ok"
    THEN Ok([k \in 1..Len(p.value.data) |-> p.value.data[k].embedding])
    ELSE p

\* embeddings: the response itself, an error boxed.
EmbeddingsResult(p) ==
    IF p.kind = "Ok" THEN p ELSE Err(BoxError(p.error))

embed_deliver ==
    /\ task = "deliver"
    /\ op \in {"embed", "embed_batch", "embeddings"}
    /\ IF op = "embed" /\ performed.kind = "Ok" /\ performed.value.data = <<>>
       THEN /\ task' = "panicked"
            /\ UNCHANGED <<result, sends, slot>>
       ELSE OneshotSend(CASE op = "embed" -> EmbedResult(performed)
                          [] op = "embed_batch" -> EmbedBatchResult(performed)
                          [] op = "embeddings" -> EmbeddingsResult(performed))
    /\ UNCHANGED <<op, caller, documents, request, capacity, now, wait_time, outcome,
                   performed, next, send_failed, logged, transport_calls,
                   rerank_limiter, embed_limiter, chan, delivered, handle, resolutions>>
    /\ UNCHANGED limVars

\* search: whatever SearchClient::search returned, an error boxed.
search_finish ==
    /\ task = "await"
    /\ op = "search"
    /\ \E o \in SearchOutcomes :
         /\ outcome' = o
         /\ IF o.kind = "panic"
            THEN /\ task' = "panicked"
                 /\ UNCHANGED <<result, sends, slot>>
            ELSE OneshotSend(IF o.kind = "Ok" THEN o ELSE Err(BoxError(o.error)))
    /\ UNCHANGED <<op, caller, documents, request, capacity, now, wait_time,
                   performed, next, send_failed, logged, transport_calls,
                   rerank_limiter, embed_limiter, chan, delivered, handle, resolutions>>
    /\ UNCHANGED limVars

(***************************************************************************)
(* The caller's side: consuming.                                           *)
(***************************************************************************)
\* Awaiting a handle: the poll that finds it ready.
Await ==
    /\ caller = "holding"
    /\ op \in HandleOps
    /\ LET p == PollReceiver(slot, TxDropped)
       IN /\ p.ready
          /\ handle' = PollOutput(op, p.value)
    /\ caller' = "resolved"
    /\ resolutions' = resolutions + 1
    /\ slot' = None
    /\ UNCHANGED <<op, documents, request, task, capacity, now, taskVars, chan, delivered>>
    /\ UNCHANGED limVars

\* stream.next().await: the next buffered item, or the end of the stream.
StreamNext ==
    /\ caller = "holding"
    /\ op \in StreamOps
    /\ IF chan # <<>>
       THEN /\ delivered' = Append(delivered, Head(chan))
            /\ chan' = Tail(chan)
            /\ UNCHANGED caller
       ELSE /\ TxDropped
            /\ caller' = "ended"
            /\ UNCHANGED <<chan, delivered>>
    /\ UNCHANGED <<op, documents, request, task, capacity, now, taskVars, slot,
                   handle, resolutions>>
    /\ UNCHANGED limVars

\* The caller drops the handle or the stream: what was buffered is discarded.
Drop ==
    /\ caller = "holding"
    /\ caller' = "dropped"
    /\ chan' = <<>>
    /\ slot' = None
    /\ UNCHANGED <<op, documents, request, task, capacity, now, taskVars, delivered,
                   handle, resolutions>>
    /\ UNCHANGED limVars

(***************************************************************************)
(* Concurrent calls: the path of perform_rerank and create_embedding       *)
(* through the rate limiter, the limiter's critical sections step by step. *)
(***************************************************************************)
mainVars == <<op, caller, documents, request, task, wait_time, outcome, performed,
              next, capacity, chan, delivered, send_failed, result, sends, slot,
              handle, resolutions, logged, transport_calls, pureVars>>

LimitOf(cls) == IF cls = "rerank" THEN RerankLimit ELSE EmbeddingsLimit

\* Mutant: the embeddings client consults the rerank pool.
PoolOfAlwaysReranking(cls) == "reranking"

\* The pool a call's class checks and updates.
PoolOf(cls) == IF cls = "rerank" THEN "reranking" ELSE "embeddings"

\* Mutant: every call reads a limiter of its own, freshly constructed.
GetPoolFresh(cls) == NewPool

\* The pool of the limiter a call of class cls holds.
GetPool(cls) ==
    IF cls = "rerank" THEN rerank_limiter[PoolOf(cls)] ELSE embed_limiter[PoolOf(cls)]

SetPool(cls, p) ==
    /\ rerank_limiter' =
         IF cls = "rerank" THEN [rerank_limiter EXCEPT ![PoolOf(cls)] = p] ELSE rerank_limiter
    /\ embed_limiter' =
         IF cls = "rerank" THEN embed_limiter ELSE [embed_limiter EXCEPT ![PoolOf(cls)] = p]

\* A call starts in the first free slot: its request is built and its tokens
\* are estimated.
worker_start(w, cls, e) ==
    /\ workers[w].pc \in {"idle", "done"}
    /\ \A v \in Workers : v < w => workers[v].pc \notin {"idle", "done"}
    /\ ops_started < MaxOps
    /\ ops_started' = ops_started + 1
    /\ workers' = [workers EXCEPT ![w] = [IdleWorker EXCEPT !.pc = "check", !.cls = cls,
                                                          !.estimate = e]]
    /\ UNCHANGED <<mainVars, rerank_limiter, embed_limiter, now, lock, serial_pool, refused>>

\* Mutant: the critical section is entered although another call is inside.
CanEnterAlways(holder) == TRUE

\* The pool's mutex admits a call when no call is inside.
CanEnter(holder) == holder = 0

\* Entering the critical section of check or update: the clock is read once.
limiter_acquire(w) ==
    /\ workers[w].pc \in {"check", "update"}
    /\ CanEnter(lock[workers[w].cls])
    /\ lock' = [lock EXCEPT ![workers[w].cls] = w]
    /\ workers' = [workers EXCEPT
                     ![w].pc = IF @ = "check" THEN "check_roll" ELSE "update_roll",
                     ![w].t = now,
                     ![w].snap = GetPool(workers[w].cls)]
    /\ UNCHANGED <<mainVars, rerank_limiter, embed_limiter, now, serial_pool, refused,
                   ops_started>>

\* Mutant: an expired window is never noticed.
WindowExpiredNever(p, t) == FALSE

\* Mutant: every check and update finds the window expired.
WindowExpiredAlways(p, t) == TRUE

WindowExpired(p, t) == t - p.windowStart >= WindowLength

\* Rolling, first half: an expired window restarts at the time read.
limiter_roll(w) ==
    /\ workers[w].pc \in {"check_roll", "update_roll"}
    /\ LET c == workers[w].cls
           p == GetPool(c)
           after == IF workers[w].pc = "check_roll" THEN "check_decide" ELSE "update_add"
           reset == IF workers[w].pc = "check_roll" THEN "check_reset" ELSE "update_reset"
       IN IF WindowExpired(p, workers[w].t)
          THEN /\ SetPool(c, [p EXCEPT !.windowStart = workers[w].t])
               /\ workers' = [workers EXCEPT ![w].pc = reset, ![w].rolled = TRUE]
          ELSE /\ workers' = [workers EXCEPT ![w].pc = after]
               /\ UNCHANGED <<rerank_limiter, embed_limiter>>
    /\ UNCHANGED <<mainVars, now, lock, serial_pool, refused, ops_started>>

\* Rolling, second half: the usage of the new window starts at zero.
limiter_reset(w) ==
    /\ workers[w].pc \in {"check_reset", "update_reset"}
    /\ SetPool(workers[w].cls, [GetPool(workers[w].cls) EXCEPT !.used = 0])
    /\ workers' = [workers EXCEPT
                     ![w].pc = IF @ = "check_reset" THEN "check_decide" ELSE "update_add"]
    /\ UNCHANGED <<mainVars, now, lock, serial_pool, refused, ops_started>>

\* Mutant: check reserves its estimate in the pool.
ReservedByCheckEstimate(estimate, wait) == IF wait = 0 THEN estimate ELSE 0

\* What check adds to the pool's usage: nothing.
ReservedByCheck(estimate, wait) == 0

\* check decides and leaves the critical section; the call goes on to
\* sleep or to send.
limiter_check_decide(w) ==
    /\ workers[w].pc = "check_decide"
    /\ LET c == workers[w].cls
           p == GetPool(c)
           wait == WaitFor(p, LimitOf(c), workers[w].estimate, workers[w].t)
       IN /\ workers' = [workers EXCEPT ![w].pc = AfterCheck(wait), ![w].wait = wait,
                                        ![w].snap = NewPool,
                                        ![w].t = IF AfterCheck(wait) = "sleep" THEN @ ELSE 0]
          /\ serial_pool' = [serial_pool EXCEPT ![c] = RollWindow(@, workers[w].t)]
          /\ SetPool(c, [p EXCEPT !.used = @ + ReservedByCheck(workers[w].estimate, wait)])
          /\ refused' =
               IF wait > 0
               THEN [refused EXCEPT ![c] = [kind |-> "Some",
                                            estimate |-> workers[w].estimate,
                                            windowStart |-> p.windowStart]]
               ELSE refused
          /\ lock' = [lock EXCEPT ![c] = 0]
    /\ UNCHANGED <<mainVars, now, ops_started>>

\* Mutant: after its sleep the call consults the check again.
worker_sleep_recheck(w) ==
    /\ workers[w].pc = "sleep"
    /\ now >= workers[w].t + workers[w].wait
    /\ workers' = [workers EXCEPT ![w].pc = "check", ![w].t = 0]
    /\ UNCHANGED <<mainVars, rerank_limiter, embed_limiter, now, lock, serial_pool, refused,
                   ops_started>>

\* sleep(wait_time).await returns once the wait has elapsed.
worker_sleep(w) ==
    /\ workers[w].pc = "sleep"
    /\ now >= workers[w].t + workers[w].wait
    /\ workers' = [workers EXCEPT ![w].pc = "send", ![w].t = 0]
    /\ UNCHANGED <<mainVars, rerank_limiter, embed_limiter, now, lock, serial_pool, refused,
                   ops_started>>

\* A call that has returned.
DoneWorker == [IdleWorker EXCEPT !.pc = "done"]

\* The request is sent and answered: a success reports the tokens used, a
\* failure ends the call.
worker_respond(w) ==
    /\ workers[w].pc = "send"
    /\ \/ \E a \in TokenCounts :
            workers' = [workers EXCEPT ![w] = [IdleWorker EXCEPT
                          !.pc = "update", !.cls = workers[w].cls,
                          !.estimate = workers[w].estimate, !.actual = a]]
       \/ workers' = [workers EXCEPT ![w] = DoneWorker]
    /\ UNCHANGED <<mainVars, rerank_limiter, embed_limiter, now, lock, serial_pool, refused,
                   ops_started>>

\* Mutant: the estimate is recorded instead of the usage the server reported.
UpdateAmountEstimate(call) == call.estimate

\* The amount a call passes to update: usage.total_tokens of the response.
UpdateAmount(call) == call.actual

\* Mutant: update stores the amount instead of adding it.
limiter_update_add_overwrite(w) ==
    /\ workers[w].pc = "update_add"
    /\ LET c == workers[w].cls
           p == GetPool(c)
       IN /\ SetPool(c, [p EXCEPT !.used = UpdateAmount(workers[w])])
          /\ serial_pool' = [serial_pool EXCEPT
                               ![c] = [RollWindow(@, workers[w].t) EXCEPT
                                         !.used = @ + workers[w].actual]]
          /\ lock' = [lock EXCEPT ![c] = 0]
    /\ workers' = [workers EXCEPT ![w] = DoneWorker]
    /\ UNCHANGED <<mainVars, now, refused, ops_started>>

\* update adds the amount and leaves the critical section.
limiter_update_add(w) ==
    /\ workers[w].pc = "update_add"
    /\ LET c == workers[w].cls
           p == GetPool(c)
       IN /\ SetPool(c, [p EXCEPT !.used = @ + UpdateAmount(workers[w])])
          /\ serial_pool' = [serial_pool EXCEPT
                               ![c] = [RollWindow(@, workers[w].t) EXCEPT
                                         !.used = @ + workers[w].actual]]
          /\ lock' = [lock EXCEPT ![c] = 0]
    /\ workers' = [workers EXCEPT ![w] = DoneWorker]
    /\ UNCHANGED <<mainVars, now, refused, ops_started>>

\* Time passes, between the critical sections: they read the clock once, on
\* entry, and hold no suspension point.
Tick ==
    /\ now < MaxTime
    /\ \A c \in Classes : lock[c] = 0
    /\ now' = now + 1
    /\ UNCHANGED <<mainVars, rerank_limiter, embed_limiter, limVars>>

(***************************************************************************)
(* Specifications.                                                         *)
(***************************************************************************)
Call ==
    \/ \E q \in Queries, docs \in DocLists : find_similar_documents(q, docs)
    \/ \E q \in Queries, docs \in DocLists : most_similar_document(q, docs)
    \/ \E text \in Queries : embed(text)
    \/ \E texts \in DocLists : embed_batch(texts)
    \/ \E texts \in DocLists : embed_stream(texts)
    \/ \E input \in {Single(t) : t \in Queries} \cup {Multiple(ts) : ts \in DocLists} :
          embeddings(EmbeddingsRequest(input))
    \/ search

TaskStep ==
    \/ perform_rerank_check
    \/ create_embedding_check
    \/ Sleep
    \/ SendRequest
    \/ stream_deliver
    \/ stream_push
    \/ most_similar_deliver
    \/ embed_deliver

Transport ==
    \/ perform_rerank_respond
    \/ create_embedding_respond
    \/ search_finish

Next ==
    \/ Call
    \/ TaskStep
    \/ Transport
    \/ Await
    \/ StreamNext
    \/ Drop

Spec == Init /\ [][Next]_vars

\* The runtime schedules a spawned task until it ends; the caller may never
\* poll what it was handed.
TaskFairSpec ==
    /\ Spec
    /\ WF_vars(TaskStep)

\* The runtime schedules a spawned task until it ends, and a caller that
\* holds a handle or stream keeps polling it until it drops it.
FairSpec ==
    /\ Spec
    /\ WF_vars(TaskStep)
    /\ WF_vars(Await)
    /\ WF_vars(StreamNext)

WorkerStep(w) ==
    \/ \E cls \in Classes, e \in Estimates : worker_start(w, cls, e)
    \/ limiter_acquire(w)
    \/ limiter_roll(w)
    \/ limiter_reset(w)
    \/ limiter_check_decide(w)
    \/ worker_sleep(w)
    \/ worker_respond(w)
    \/ limiter_update_add(w)

LimiterNext ==
    \/ \E w \in Workers : WorkerStep(w)
    \/ Tick

\* Concurrent calls on one freshly constructed client.
LimiterSpec == Init /\ [][LimiterNext]_vars

\* The steps of call w after its start.
CallStep(w) ==
    \/ limiter_acquire(w)
    \/ limiter_roll(w)
    \/ limiter_reset(w)
    \/ limiter_check_decide(w)
    \/ worker_sleep(w)
    \/ worker_respond(w)
    \/ limiter_update_add(w)

\* Some call sleeps and its wait has not elapsed.
SleeperWaiting ==
    \E w \in Workers :
        workers[w].pc = "sleep" /\ now < workers[w].t + workers[w].wait

\* Time passes beyond the horizon of the model while a call sleeps.
TickForSleeper ==
    /\ now >= MaxTime
    /\ SleeperWaiting
    /\ \A c \in Classes : lock[c] = 0
    /\ now' = now + 1
    /\ UNCHANGED <<mainVars, rerank_limiter, embed_limiter, limVars>>

\* The first call of a caller.
worker_start_first(w, cls, e) ==
    /\ workers[w].pc = "idle"
    /\ worker_start(w, cls, e)

\* Every caller issues one call.
LimiterFairNext ==
    \/ \E w \in Workers, cls \in Classes, e \in Estimates : worker_start_first(w, cls, e)
    \/ \E w \in Workers : CallStep(w)
    \/ Tick
    \/ TickForSleeper

\* Concurrent calls whose tasks the runtime keeps scheduling, with a fair
\* mutex and a clock that does not stop.
LimiterFairSpec ==
    /\ Init
    /\ [][LimiterFairNext]_vars
    /\ \A w \in Workers : WF_vars(CallStep(w))
    /\ \A w \in Workers : SF_vars(limiter_acquire(w))
    /\ WF_vars(Tick \/ TickForSleeper)

(***************************************************************************)
(* cosine_similarity: a pure function of two slices.  Components are small *)
(* integers and the arithmetic is exact; a quotient dot / (|a| * |b|) is   *)
(* kept as its numerator and the square of its denominator.                *)
(***************************************************************************)
FloatValues == {-1, 0, 2}

FloatVectors == UNION {[1..n -> FloatValues] : n \in 0..MaxDim}

\* 0.0
Zero == [dot |-> 0, norm_sq |-> 1]

\* a.iter().zip(b.iter()).map(|(x, y)| x * y).sum()
DotProduct(a, b) == SumSeq([i \in 1..Len(a) |-> a[i] * b[i]])

\* a.iter().map(|x| x * x).sum(): the square of the magnitude.
SquaredMagnitude(a) == SumSeq([i \in 1..Len(a) |-> a[i] * a[i]])

\* dot_product / (magnitude_a * magnitude_b), the magnitudes given squared.
Quotient(dot, sq_a, sq_b) ==
    IF dot = 0 THEN Zero ELSE [dot |-> dot, norm_sq |-> sq_a * sq_b]

\* Mutant: the dot product is divided by the first magnitude only.
cosine_similarity_first_norm(a, b) ==
    IF Len(a) = 0 \/ Len(b) = 0 \/ Len(a) # Len(b)
    THEN Zero
    ELSE IF SquaredMagnitude(a) = 0 \/ SquaredMagnitude(b) = 0
         THEN Zero
         ELSE Quotient(DotProduct(a, b), SquaredMagnitude(a), 1)

cosine_similarity(a, b) ==
    IF Len(a) = 0 \/ Len(b) = 0 \/ Len(a) # Len(b)
    THEN Zero
    ELSE IF SquaredMagnitude(a) = 0 \/ SquaredMagnitude(b) = 0
         THEN Zero
         ELSE Quotient(DotProduct(a, b), SquaredMagnitude(a), SquaredMagnitude(b))

\* Any two slices of at most MaxDim components.
CosineInit ==
    /\ ClientInit
    /\ vec_a \in FloatVectors
    /\ vec_b \in FloatVectors
    /\ cosine_result = None
    /\ code_task = IdleCodeTask

cosine_similarity_call ==
    /\ cosine_result = None
    /\ cosine_result' = cosine_similarity(vec_a, vec_b)
    /\ UNCHANGED <<callVars, taskVars, pipeVars, workers, lock, serial_pool, refused,
                   ops_started, vec_a, vec_b, code_task>>

CosineNext == cosine_similarity_call

\* One call of cosine_similarity on arbitrary arguments.
CosineSpec == CosineInit /\ [][CosineNext]_vars

(***************************************************************************)
(* Client::embed_code and Client::embed_markdown: the embedding calls of   *)
(* the code blocks of a document, one after the other.                     *)
(***************************************************************************)
\* A code block: its language tag and whether its content parses as Rust.
CodeBlocks == [language : {"rust", "python", "none"}, parses : BOOLEAN]

CodeBlockLists == UNION {[1..n -> CodeBlocks] : n \in 0..MaxBlocks}

TokenizerError == [variant |-> "TokenizerError"]

\* What create_embedding's transport answers to one of the calls.
CodeOutcomes ==
    {Response(StatusOk, TRUE, <<EmbeddingData(v, 0)>>, 1) : v \in Vectors}
    \cup {TransportError, Response(StatusUnauthorized, FALSE, <<>>, 0)}

CodeEmbedding(text, ast) == [text_embedding |-> text, ast_embedding |-> ast]

\* Client::embed_code called directly.
embed_code(parses) ==
    /\ code_task.pc = "idle"
    /\ code_task' = [IdleCodeTask EXCEPT
                       !.pc = "text_call", !.entry = "embed_code",
                       !.blocks = <<[language |-> "rust", parses |-> parses]>>]
    /\ UNCHANGED <<callVars, taskVars, pipeVars, workers, lock, serial_pool, refused,
                   ops_started, vec_a, vec_b, cosine_result>>

\* Client::embed_markdown: extract_code_blocks, then the loop.
embed_markdown(blocks) ==
    /\ code_task.pc = "idle"
    /\ code_task' = [IdleCodeTask EXCEPT
                       !.pc = "next", !.entry = "embed_markdown", !.blocks = blocks]
    /\ UNCHANGED <<callVars, taskVars, pipeVars, workers, lock, serial_pool, refused,
                   ops_started, vec_a, vec_b, cosine_result>>

\* The head of embed_markdown's loop: a block that is not tagged rust is
\* passed over; after the last block the list is returned.
embed_markdown_next ==
    /\ code_task.pc = "next"
    /\ code_task' =
         IF code_task.i > Len(code_task.blocks)
         THEN [code_task EXCEPT !.pc = "done", !.result = Ok(code_task.embeddings)]
         ELSE IF code_task.blocks[code_task.i].language = "rust"
              THEN [code_task EXCEPT !.pc = "text_call"]
              ELSE [code_task EXCEPT !.i = @ + 1]
    /\ UNCHANGED <<callVars, taskVars, pipeVars, workers, lock, serial_pool, refused,
                   ops_started, vec_a, vec_b, cosine_result>>

\* Mutant: a failure of the text call is put aside and the call goes on.
embed_code_text_call_lenient ==
    /\ code_task.pc = "text_call"
    /\ \E o \in CodeOutcomes :
         LET r == EmbedResult(EmbeddingResult(o))
         IN code_task' =
              [code_task EXCEPT
                 !.calls = Append(@, [block |-> code_task.i, input |-> "text",
                                      ok |-> r.kind = "Ok"]),
                 !.text_embedding = IF r.kind = "Ok" THEN r.value ELSE <<PlaceholderValue>>,
                 !.pc = "parse"]
    /\ UNCHANGED <<callVars, taskVars, pipeVars, workers, lock, serial_pool, refused,
                   ops_started, vec_a, vec_b, cosine_result>>

\* embed_code: the embedding call on the text of the code; an error returns.
embed_code_text_call ==
    /\ code_task.pc = "text_call"
    /\ \E o \in CodeOutcomes :
         LET r == EmbedResult(EmbeddingResult(o))
         IN code_task' =
              IF r.kind = "Ok"
              THEN [code_task EXCEPT
                      !.calls = Append(@, [block |-> code_task.i, input |-> "text",
                                           ok |-> TRUE]),
                      !.text_embedding = r.value,
                      !.pc = "parse"]
              ELSE [code_task EXCEPT
                      !.calls = Append(@, [block |-> code_task.i, input |-> "text",
                                           ok |-> FALSE]),
                      !.result = r,
                      !.pc = "done"]
    /\ UNCHANGED <<callVars, taskVars, pipeVars, workers, lock, serial_pool, refused,
                   ops_started, vec_a, vec_b, cosine_result>>

\* embed_code: parse_rust_ast; a parse error returns as TokenizerError.
embed_code_parse ==
    /\ code_task.pc = "parse"
    /\ code_task' =
         IF code_task.blocks[code_task.i].parses
         THEN [code_task EXCEPT !.pc = "ast_call"]
         ELSE [code_task EXCEPT !.pc = "done", !.result = Err(TokenizerError)]
    /\ UNCHANGED <<callVars, taskVars, pipeVars, workers, lock, serial_pool, refused,
                   ops_started, vec_a, vec_b, cosine_result>>

\* embed_code: the embedding call on the serialized AST; an error returns,
\* a success completes the CodeEmbedding, which embed_markdown pushes.
embed_code_ast_call ==
    /\ code_task.pc = "ast_call"
    /\ \E o \in CodeOutcomes :
         LET r == EmbedResult(EmbeddingResult(o))
             logged_call == [block |-> code_task.i, input |-> "ast", ok |-> r.kind = "Ok"]
         IN code_task' =
              IF r.kind = "Err"
              THEN [code_task EXCEPT !.calls = Append(@, logged_call),
                                     !.result = r, !.pc = "done"]
              ELSE IF code_task.entry = "embed_code"
              THEN [code_task EXCEPT
                      !.calls = Append(@, logged_call),
                      !.result = Ok(CodeEmbedding(code_task.text_embedding, r.value)),
                      !.pc = "done"]
              ELSE [code_task EXCEPT
                      !.calls = Append(@, logged_call),
                      !.embeddings =
                         Append(@, CodeEmbedding(code_task.text_embedding, r.value)),
                      !.text_embedding = None,
                      !.i = @ + 1,
                      !.pc = "next"]
    /\ UNCHANGED <<callVars, taskVars, pipeVars, workers, lock, serial_pool, refused,
                   ops_started, vec_a, vec_b, cosine_result>>

CodeNext ==
    \/ \E parses \in BOOLEAN : embed_code(parses)
    \/ \E blocks \in CodeBlockLists : embed_markdown(blocks)
    \/ embed_markdown_next
    \/ embed_code_text_call
    \/ embed_code_parse
    \/ embed_code_ast_call

\* One call of embed_code or embed_markdown.
CodeSpec == Init /\ [][CodeNext]_vars

(***************************************************************************)
(* Properties.                                                             *)
(***************************************************************************)
\* The ranked list the server answered with (empty before it answers).
ServerData == IF outcome # None /\ outcome.kind = "response" THEN outcome.data ELSE <<>>

\* C1: every item the find_similar_documents stream has yielded carries the
\* caller's document at the index the server returned for that result,
\* whatever entries the server permuted or left out.
C1_Correspondence ==
    op = "find_similar_documents" =>
        \A k \in 1..Len(delivered) :
            /\ k <= Len(ServerData)
            /\ ServerData[k].index < Len(documents)
            /\ delivered[k].document = documents[ServerData[k].index + 1]

\* The server answered a permutation of two documents and both were yielded.
C1_Witness ==
    /\ op = "find_similar_documents"
    /\ Len(documents) = 2
    /\ Len(delivered) = 2
    /\ ServerData[1].index = 1
    /\ ServerData[2].index = 0
    /\ delivered[1].document = DocText(2)
    /\ delivered[2].document = DocText(1)

\* C2: what the consumer has received, followed by what is buffered, is
\* the server's list up to some position, in the server's order, the item
\* at position k (from 0) carrying rank k and the k-th entry's score.
C2_ServerOrder ==
    op = "find_similar_documents" =>
        LET seen == delivered \o chan
        IN /\ Len(seen) <= Len(ServerData)
           /\ \A k \in 1..Len(delivered) :
                /\ delivered[k].rank = k - 1
                /\ delivered[k].similarity = ServerData[k].relevance_score
                /\ ServerData[k].index < Len(documents)
                /\ delivered[k].document = documents[ServerData[k].index + 1]
           /\ \A j \in 1..Len(chan) : chan[j].rank = Len(delivered) + j - 1

\* Two items with distinct scores, the lower one first, were yielded in
\* the server's order.
C2_Witness ==
    /\ op = "find_similar_documents"
    /\ Len(delivered) = 2
    /\ delivered[1].similarity < delivered[2].similarity
    /\ delivered[1].rank = 0
    /\ delivered[2].rank = 1

\* C3: the rerank stream's channel never holds more than 16 items, however
\* many results the server returned and however slowly the consumer reads,
\* and the producer task panics only on an out-of-bounds index, never
\* because the consumer read one item and dropped the stream.
C3_Backpressure ==
    op = "find_similar_documents" =>
        /\ Len(chan) <= ChannelCapacity
        /\ task = "panicked" =>
             /\ next <= Len(ServerData)
             /\ ServerData[next].index >= Len(documents)
        /\ (caller = "dropped" /\ Len(delivered) = 1
              /\ \A k \in 1..Len(ServerData) : ServerData[k].index < Len(documents))
           => task # "panicked"

\* The server returned more results than the channel holds; the consumer
\* read one item and dropped the stream; the producer ended on the send
\* that failed.
C3_Witness ==
    /\ op = "find_similar_documents"
    /\ Len(ServerData) > ChannelCapacity
    /\ Len(delivered) = 1
    /\ caller = "dropped"
    /\ task = "done"
    /\ send_failed = 1
    /\ next <= Len(ServerData)

\* A producer that has an item to send after the consumer dropped the stream
\* ends with that step, on a failed send and with nothing logged.
C4_FailedSendStep ==
    (/\ op \in StreamOps
     /\ RxDropped
     /\ task = "push"
     /\ next <= Len(performed.value.data)
     /\ op = "find_similar_documents"
          => IndexInBounds(performed.value.data[next], documents))
    => (task' = "done" /\ send_failed' = 1 /\ logged' = 0)

\* C4: once the consumer has dropped a stream, nothing more is buffered; a
\* send that the producer attempts fails, and it is the producer's last
\* step: the task returns without logging an error or panicking on it;
\* and a producer in its push loop always goes on to end.
C4_DropStopsProducer ==
    /\ [](op \in StreamOps /\ RxDropped =>
            /\ chan = <<>>
            /\ send_failed <= 1
            /\ send_failed = 1 => (task = "done" /\ logged = 0)
            /\ task = "push" => ENABLED stream_push)
    /\ [][C4_FailedSendStep]_vars
    /\ (op \in StreamOps /\ RxDropped /\ task = "push") ~> (task \in {"done", "panicked"})

\* A consumer dropped a stream with items still to come and the producer
\* ended on its failed send, for the rerank stream.
C4_Witness ==
    /\ op = "find_similar_documents"
    /\ caller = "dropped"
    /\ task = "done"
    /\ send_failed = 1
    /\ logged = 0
    /\ Len(delivered) < Len(ServerData)

\* C5: when the rerank answer parses and holds no ranked result,
\* most_similar_document resolves to the error 'No matching documents
\* found', and a caller that keeps the handle does get it.
C5_EmptyIsNoMatch ==
    /\ [](op = "most_similar_document" /\ caller = "resolved"
            /\ outcome.kind = "response" /\ outcome.status = StatusOk
            /\ outcome.parses /\ outcome.data = <<>>
          => handle = Err(Other("No matching documents found")))
    /\ (op = "most_similar_document" /\ task = "deliver"
            /\ performed.kind = "Ok" /\ performed.value.data = <<>>)
       ~> (caller \in {"resolved", "dropped"})

\* most_similar_document resolved after the server answered an empty list.
C5_Witness ==
    /\ op = "most_similar_document"
    /\ caller = "resolved"
    /\ outcome.kind = "response"
    /\ outcome.status = StatusOk
    /\ outcome.parses
    /\ outcome.data = <<>>
    /\ handle.kind = "Err"

\* C6 as stated: whenever the server's ranked list is not empty,
\* most_similar_document resolves to Ok with rank 0, the first entry's score
\* and the document at the first entry's index.
C6_Original ==
    (op = "most_similar_document" /\ caller = "resolved"
        /\ outcome.kind = "response" /\ outcome.status = StatusOk
        /\ outcome.parses /\ outcome.data # <<>>)
    => /\ handle.kind = "Ok"
       /\ handle.value.rank = 0
       /\ handle.value.similarity = Head(outcome.data).relevance_score
       /\ handle.value.document = documents[Head(outcome.data).index + 1]

\* C6 amended: whenever the server's ranked list is not empty and its first
\* entry's index is within the document list, most_similar_document resolves
\* to Ok with rank 0, the first entry's score and the document at the first
\* entry's index.
C6_FirstEntry ==
    (op = "most_similar_document" /\ caller = "resolved"
        /\ outcome.kind = "response" /\ outcome.status = StatusOk
        /\ outcome.parses /\ outcome.data # <<>>
        /\ Head(outcome.data).index < Len(documents))
    => /\ handle.kind = "Ok"
       /\ handle.value.rank = 0
       /\ handle.value.similarity = Head(outcome.data).relevance_score
       /\ handle.value.document = documents[Head(outcome.data).index + 1]

\* most_similar_document resolved to the first entry of a list whose second
\* entry has the higher score.
C6_Witness ==
    /\ op = "most_similar_document"
    /\ caller = "resolved"
    /\ outcome.kind = "response"
    /\ Len(outcome.data) = 2
    /\ outcome.data[1].relevance_score < outcome.data[2].relevance_score
    /\ outcome.data[1].index = 1
    /\ outcome.data[2].index = 0
    /\ handle.kind = "Ok"
    /\ handle.value.document = DocText(2)

\* C7: when the rerank call of most_similar_document fails (transport error,
\* a status other than 200, or a body that does not parse), the caller
\* receives the very error perform_rerank returned, never an Ok value.
C7_ErrorUnchanged ==
    (op = "most_similar_document" /\ caller = "resolved"
        /\ outcome \in FailureOutcomes)
    => /\ performed.kind = "Err"
       /\ handle.kind = "Err"
       /\ handle = performed

\* most_similar_document resolved to the ApiError of a 500 answer.
C7_Witness ==
    /\ op = "most_similar_document"
    /\ caller = "resolved"
    /\ outcome.kind = "response"
    /\ outcome.status \in OtherStatuses
    /\ handle = Err(ApiError(outcome.status, Body))

\* The server answered 200 with a body that parses and an empty list.
EmptySuccess ==
    /\ outcome.kind = "response"
    /\ outcome.status = StatusOk
    /\ outcome.parses
    /\ outcome.data = <<>>

\* C8 as stated: when the call of a streaming operation fails nothing is
\* ever pushed, and the consumer sees exactly what it sees for a successful
\* call with zero results: no item at all.
C8_Original ==
    (op \in StreamOps /\ (outcome \in FailureOutcomes \/ EmptySuccess))
    => (chan = <<>> /\ delivered = <<>>)

\* C8 amended: when the call of a streaming operation fails nothing is ever
\* pushed, the task ends, and a consumer that keeps reading reaches the end
\* of the stream with zero items; for find_similar_documents a successful
\* call with zero results looks exactly the same, whereas embed_stream
\* then yields the one placeholder vector before the stream ends.
C8_FailureEndsEmpty ==
    /\ [](op \in StreamOps /\ outcome \in FailureOutcomes =>
            /\ performed.kind = "Err"
            /\ chan = <<>>
            /\ delivered = <<>>
            /\ task \in {"deliver", "done"})
    /\ [](op = "find_similar_documents" /\ EmptySuccess =>
            /\ chan = <<>>
            /\ delivered = <<>>
            /\ task \in {"deliver", "push", "done"})
    /\ [](op = "embed_stream" /\ EmptySuccess /\ caller = "ended" =>
            delivered = << <<PlaceholderValue>> >>)
    /\ (op \in StreamOps /\ outcome \in FailureOutcomes)
       ~> (caller \in {"ended", "dropped"})
    /\ (op = "find_similar_documents" /\ EmptySuccess)
       ~> (caller \in {"ended", "dropped"})

\* The consumer of a stream whose call failed reached the end of the
\* stream without an item.
C8_Witness ==
    /\ op \in StreamOps
    /\ outcome \in FailureOutcomes
    /\ caller = "ended"
    /\ delivered = <<>>
    /\ logged = 1

\* C9: the task of a spawning operation sends at most one value, its handle
\* resolves at most once, and a handle that resolved after the task sent
\* holds the very value the task sent.
C9_ExactlyOnce ==
    op \in HandleOps =>
        /\ sends <= 1
        /\ resolutions <= 1
        /\ caller = "resolved" <=> resolutions = 1
        /\ (caller = "resolved" /\ sends = 1) => handle = result
        /\ (caller = "resolved" /\ sends = 0) => task = "panicked"

\* The handle of embed resolved to the vector its task sent.
C9_Witness ==
    /\ op = "embed"
    /\ caller = "resolved"
    /\ sends = 1
    /\ resolutions = 1
    /\ handle.kind = "Ok"
    /\ handle = result

\* The 'task canceled' errors of the handles.
IsCanceledError(h) ==
    /\ h.kind = "Err"
    /\ LET e == IF h.error.variant = "Box<dyn Error>" THEN h.error.inner ELSE h.error
       IN /\ e.variant = "Other"
          /\ e.msg \in {"Similarity task canceled", "Embedding task canceled",
                        "Batch embedding task canceled", "Search task canceled"}

\* C10: a task that panics has sent nothing; a handle that resolves although
\* nothing was sent resolves to the 'task canceled' error; and once the task
\* has ended a caller that holds the handle does get a value.
C10_CanceledNotPending ==
    /\ [](op \in HandleOps =>
            /\ task = "panicked" => sends = 0
            /\ (caller = "resolved" /\ sends = 0) => IsCanceledError(handle)
            /\ (caller = "holding" /\ TxDropped) => ENABLED Await)
    /\ (op \in HandleOps /\ TxDropped) ~> (caller \in {"resolved", "dropped"})

\* The task of most_similar_document panicked and its handle resolved to
\* the 'Similarity task canceled' error.
C10_Witness ==
    /\ op = "most_similar_document"
    /\ task = "panicked"
    /\ sends = 0
    /\ caller = "resolved"
    /\ handle = Err(Other("Similarity task canceled"))

\* The panics the source's tasks can raise: an out-of-bounds index of the
\* first ranked entry, or a panic inside the search client.
TaskPanicCause ==
    \/ /\ op = "most_similar_document"
       /\ performed.kind = "Ok"
       /\ performed.value.data # <<>>
       /\ ~IndexInBounds(Head(performed.value.data), documents)
    \/ /\ op = "search"
       /\ outcome.kind = "panic"

\* The pool of the operation's class holds the usage the server reported.
UsageRecorded ==
    IF op \in RerankOps
    THEN rerank_limiter.reranking.used = outcome.total_tokens
    ELSE embed_limiter.embeddings.used = outcome.total_tokens

\* C11: after the caller dropped a handle that had not resolved, its task
\* keeps running: it still issues its transport call, a successful answer is
\* still recorded in the rate limiter, and the task ends by a send whose
\* value is discarded, without logging and without a panic other than the
\* ones it raises with the handle held.
C11_DropDoesNotCancel ==
    /\ [](op \in HandleOps /\ caller = "dropped" =>
            /\ task \in {"check", "sleep", "send", "deliver"} => ENABLED TaskStep
            /\ task = "panicked" => TaskPanicCause
            /\ task = "done" => (sends = 1 /\ slot = None /\ logged = 0)
            /\ performed.kind = "Ok" => UsageRecorded)
    /\ (op \in HandleOps \ {"search"} /\ caller = "dropped" /\ transport_calls = 0)
       ~> (transport_calls = 1)
    /\ (op \in HandleOps /\ caller = "dropped" /\ task = "deliver")
       ~> (task \in {"done", "panicked"})

\* The handle of most_similar_document was dropped unresolved; its task
\* called the transport, recorded the reported usage and sent its result to
\* nobody.
C11_Witness ==
    /\ op = "most_similar_document"
    /\ caller = "dropped"
    /\ handle = None
    /\ task = "done"
    /\ transport_calls = 1
    /\ rerank_limiter.reranking.used = 4
    /\ sends = 1
    /\ result.kind = "Ok"
    /\ slot = None

\* C12: an operation that returned a handle or stream has spawned its task;
\* the task's rate-limit check and transport call need no poll: they are
\* taken while nothing has been yielded, and every spawned task that is
\* scheduled reaches its transport call although the caller never polls.
C12_StartsWhenCalled ==
    /\ [](caller \in {"holding", "dropped"} => task # "none")
    /\ [](task \in {"check", "sleep", "send"} =>
            /\ ENABLED TaskStep
            /\ resolutions = 0
            /\ delivered = <<>>)
    /\ (op \in RerankOps \cup EmbedOps /\ task = "check") ~> (transport_calls = 1)

\* The task of find_similar_documents has consulted the limiter and issued
\* its transport call while the stream has not been polled to any effect.
C12_Witness ==
    /\ op = "find_similar_documents"
    /\ caller = "holding"
    /\ task = "await"
    /\ transport_calls = 1
    /\ delivered = <<>>
    /\ chan = <<>>

\* C13 as stated: embed_batch called with no texts consults no limiter,
\* issues no transport call and resolves to the empty list.
C13_Original ==
    (op = "embed_batch" /\ documents = <<>>) =>
        /\ task \notin {"sleep", "send", "await", "deliver"}
        /\ transport_calls = 0
        /\ embed_limiter = RateLimiterNew
        /\ caller = "resolved" => handle = Ok(<<>>)

\* C14 as stated: a successful embed_batch on a non-empty list of texts
\* resolves to one vector per text, the i-th being the embedding of the
\* server's entry for input i.
C14_Original ==
    (op = "embed_batch" /\ documents # <<>> /\ caller = "resolved" /\ handle.kind = "Ok") =>
        /\ Len(handle.value) = Len(documents)
        /\ \A i \in 1..Len(handle.value) :
             \E k \in 1..Len(outcome.data) :
                /\ outcome.data[k].index = i - 1
                /\ handle.value[i] = outcome.data[k].embedding

\* C20 as stated: a task whose check returned a nonzero wait sleeps, and its
\* sleep lasts the returned wait, before the transport call is issued.
C20_Original ==
    [][/\ (task = "check" /\ task' # "check" /\ wait_time' > 0) => task' = "sleep"
       /\ transport_calls' # transport_calls => task = "send"
       /\ (task = "sleep" /\ task' # "sleep") => (task' = "send" /\ now' = now + wait_time)]_vars

(***************************************************************************)
(* Properties of the rate limiter under concurrent calls.                  *)
(***************************************************************************)
\* The step with which call w leaves the critical section of its check.
DecideStep(w) == workers[w].pc = "check_decide" /\ workers'[w].pc # "check_decide"

\* The positions inside a pool's critical section.
CriticalPcs ==
    {"check_roll", "check_reset", "check_decide", "update_roll", "update_reset", "update_add"}

\* The pool each class is meant to use.
OwnPool(cls) ==
    IF cls = "rerank" THEN rerank_limiter.reranking ELSE embed_limiter.embeddings

C16_UsageCorrection ==
    [][\A w \in Workers :
         LET c == workers[w].cls
         IN DecideStep(w) =>
              (workers'[w].wait > 0
                 <=> RollWindow(serial_pool[c], workers[w].t).used + workers[w].estimate
                       > LimitOf(c))]_vars

\* Updates recorded a usage within the limit; a check in the same window
\* whose estimate, itself within the limit, no longer fits was refused.
C16_Witness ==
    \E w \in Workers :
        LET c == workers[w].cls
        IN /\ workers[w].pc \in {"sleep", "send"}
           /\ workers[w].wait > 0
           /\ workers[w].estimate <= LimitOf(c)
           /\ ~workers[w].rolled
           /\ lock[c] = 0
           /\ OwnPool(c).used > 0
           /\ OwnPool(c).used <= LimitOf(c)
           /\ OwnPool(c).used + workers[w].estimate > LimitOf(c)

\* C17: a check reserves nothing: it leaves the usage of the pool as it
\* found it (after rolling), so that concurrent checks decide against the
\* same usage.
C17_CheckReservesNothing ==
    [][\A w \in Workers :
         DecideStep(w) => OwnPool(workers[w].cls)' = OwnPool(workers[w].cls)]_vars

\* Two calls of one class both passed their check against an unused pool,
\* each estimate within the limit and their sum above it, and both are about
\* to record usage that exceeds the limit in that window.
C17_Witness ==
    /\ workers[1].cls = workers[2].cls
    /\ workers[1].pc = "update"
    /\ workers[2].pc = "update"
    /\ OwnPool(workers[1].cls).used = 0
    /\ workers[1].estimate <= LimitOf(workers[1].cls)
    /\ workers[2].estimate <= LimitOf(workers[1].cls)
    /\ workers[1].estimate + workers[2].estimate > LimitOf(workers[1].cls)
    /\ workers[1].actual + workers[2].actual > LimitOf(workers[1].cls)

\* C18: at most one call is inside the critical section of a pool, and it
\* holds the pool's lock; between critical sections the pool is what the
\* checks and updates, run one at a time, leave: the usage of the current
\* window is the sum of the amounts its updates recorded.
C18_MutualExclusion ==
    \A c \in Classes :
        /\ \A w, v \in Workers :
             (/\ workers[w].cls = c
              /\ workers[v].cls = c
              /\ workers[w].pc \in CriticalPcs
              /\ workers[v].pc \in CriticalPcs) => w = v
        /\ \A w \in Workers :
             (workers[w].cls = c /\ workers[w].pc \in CriticalPcs) => lock[c] = w
        /\ lock[c] = 0 => OwnPool(c) = serial_pool[c]

\* A call is half way through rolling a window that holds usage while
\* another call of its class waits to enter.
C18_Witness ==
    \E w, v \in Workers :
        /\ w # v
        /\ workers[w].cls = workers[v].cls
        /\ workers[w].pc = "update_reset"
        /\ OwnPool(workers[w].cls).used > 0
        /\ OwnPool(workers[w].cls).windowStart = workers[w].t
        /\ workers[v].pc \in {"check", "update"}

\* C19: a step of a call leaves the pools of the other class as they are,
\* and a check is refused only for the usage of its own pool.
C19_PoolsIndependent ==
    [][/\ rerank_limiter.embeddings' = rerank_limiter.embeddings
       /\ embed_limiter.reranking' = embed_limiter.reranking
       /\ \A w \in Workers :
            LET c == IF workers[w].pc \in {"idle", "done"}
                     THEN workers'[w].cls ELSE workers[w].cls
            IN /\ (workers'[w] # workers[w] /\ c = "rerank") => embed_limiter' = embed_limiter
               /\ (workers'[w] # workers[w] /\ c = "embed") => rerank_limiter' = rerank_limiter
               /\ DecideStep(w) =>
                    (workers'[w].wait > 0
                       <=> OwnPool(c).used + workers[w].estimate > LimitOf(c))]_vars

\* The rerank pool is over its limit in the current window and an embedding
\* call passed its check without a wait.
C19_Witness ==
    \E w \in Workers :
        /\ workers[w].cls = "embed"
        /\ workers[w].pc = "send"
        /\ workers[w].wait = 0
        /\ ~workers[w].rolled
        /\ rerank_limiter.reranking.used > RerankLimit
        /\ now - rerank_limiter.reranking.windowStart < WindowLength

(***************************************************************************)
(* Claims C21 to C30.                                                      *)
(***************************************************************************)
\* C21: in a call of find_similar_documents the usage the server reported is
\* recorded exactly once, in the step in which the transport call completes
\* with a response that parses: nothing is recorded before that step, a call
\* that fails records nothing, and no later step of the task or of the
\* consumer (reading, dropping, ending) changes the limiter again.
C21_UpdateOnceAtResponse ==
    [][op = "find_similar_documents" =>
         /\ task' \in {"check", "sleep", "send", "await"} =>
               rerank_limiter'.reranking.used = 0
         /\ (task = "await" /\ task' = "deliver") =>
               rerank_limiter'.reranking.used =
                 IF performed'.kind = "Ok" THEN outcome'.total_tokens ELSE 0
         /\ task \in {"deliver", "push", "done", "panicked"} =>
               rerank_limiter' = rerank_limiter]_vars

\* The consumer dropped the stream without reading an item; the task still
\* recorded the four tokens the server reported for its two results.
C21_Witness ==
    /\ op = "find_similar_documents"
    /\ caller = "dropped"
    /\ delivered = <<>>
    /\ task = "done"
    /\ performed.kind = "Ok"
    /\ Len(performed.value.data) = 2
    /\ rerank_limiter.reranking.used = 4

\* C22 as stated: on the embedding transport and on the rerank transport
\* alike, an answer with status 401 becomes Unauthorized and an answer with
\* status 403 becomes Forbidden carrying the response body.
C22_Original ==
    (op \in RerankOps \cup EmbedOps /\ outcome.kind = "response") =>
        /\ outcome.status = StatusUnauthorized => performed = Err(Unauthorized)
        /\ outcome.status = StatusForbidden => performed = Err(Forbidden(Body))

\* C23: no operation retries: every invocation issues at most one transport
\* call whatever the answer, and an answer whose status is none of 200, 401
\* and 403 becomes ApiError with that status and the body: the handle of a
\* handle operation resolves to it (boxed by embeddings), a stream operation
\* logs it and ends without an item.
C23_NoRetryApiError ==
    /\ transport_calls <= 1
    /\ (/\ op \in RerankOps \cup EmbedOps
        /\ outcome.kind = "response"
        /\ outcome.status \notin {StatusOk, StatusUnauthorized, StatusForbidden}) =>
          /\ transport_calls = 1
          /\ performed = Err(ApiError(outcome.status, Body))
          /\ (op \in HandleOps /\ handle # None) =>
                handle \in {performed, Err(BoxError(performed.error))}
          /\ op \in StreamOps =>
                (delivered = <<>> /\ chan = <<>> /\ (task = "done" => logged = 1))

\* most_similar_document was answered with status 500 and resolved to the
\* ApiError of that status after a single transport call.
C23_Witness ==
    /\ op = "most_similar_document"
    /\ outcome.kind = "response"
    /\ outcome.status = 500
    /\ caller = "resolved"
    /\ handle = Err(ApiError(500, Body))
    /\ transport_calls = 1
    /\ task = "done"

\* C24 as stated: a rerank operation whose query or document list is empty
\* (its request is refused by RerankRequest::new) fails fast: no task is
\* spawned, the limiter is not consulted, the transport is not called, and
\* the caller does not panic.
C24_Original ==
    (op \in RerankOps /\ request = None) =>
        /\ task = "none"
        /\ transport_calls = 0
        /\ rerank_limiter = RateLimiterNew
        /\ caller # "panicked"

\* C25 as stated: for every list of texts and every server response,
\* embed_stream returns a stream whose items, read to the end, are the list
\* embed_batch returns for that response: the same vectors in the same order
\* and number, from a single transport call.
C25_Original ==
    /\ (op = "embed_batch" /\ caller = "resolved" /\ performed.kind = "Ok") =>
          (handle = EmbedBatchResult(performed) /\ transport_calls = 1)
    /\ op = "embed_stream" =>
          /\ caller # "panicked"
          /\ (caller = "ended" /\ performed.kind = "Ok") =>
                /\ delivered = EmbedBatchResult(performed).value
                /\ transport_calls = 1

\* C26: the calls of one class made through one client, concurrent or not,
\* draw on one budget: an update of any call adds its amount to the pool of
\* its class, and every check that enters afterwards reads that pool with
\* all the usage the updates of the window have recorded, whichever call
\* recorded it.
C26_SharedBudget ==
    [][\A w \in Workers, c \in Classes :
         workers[w].cls = c =>
            /\ (workers[w].pc = "update_add" /\ workers'[w].pc = "done") =>
                 OwnPool(c)'.used = OwnPool(c).used + workers[w].actual
            /\ (workers[w].pc = "check" /\ workers'[w].pc = "check_roll") =>
                 /\ workers'[w].snap = OwnPool(c)
                 /\ workers'[w].snap = serial_pool[c]]_vars

\* The first call recorded its usage and returned; the only other call, of
\* the same class and with an estimate within the limit, checked in the same
\* window and was refused because of that usage.
C26_Witness ==
    /\ ops_started = 2
    /\ workers[1].pc = "done"
    /\ workers[2].pc \in {"sleep", "send"}
    /\ workers[2].wait > 0
    /\ ~workers[2].rolled
    /\ workers[2].estimate <= LimitOf(workers[2].cls)
    /\ OwnPool(workers[2].cls).used = 4
    /\ OwnPool(IF workers[2].cls = "rerank" THEN "embed" ELSE "rerank").used = 0

\* C27 as stated: the items the stream of rerank (find_similar_documents)
\* yields are sorted by similarity, highest first: of two consecutive items
\* the earlier has a similarity at least that of the later.
C27_Original ==
    op = "find_similar_documents" =>
        \A i \in 1..(Len(delivered) - 1) :
            delivered[i].similarity >= delivered[i + 1].similarity

\* C28: cosine_similarity returns 0.0 whenever one of its arguments is empty
\* or their lengths differ, and its result does not depend on the order of
\* its arguments.
C28_ZeroAndSymmetric ==
    cosine_result # None =>
        /\ (vec_a = <<>> \/ vec_b = <<>> \/ Len(vec_a) # Len(vec_b)) =>
              cosine_result = Zero
        /\ cosine_result = cosine_similarity(vec_b, vec_a)

\* Two different vectors of two components, of different magnitudes and not
\* orthogonal, have a similarity other than 0.0.
C28_Witness ==
    /\ cosine_result # None
    /\ cosine_result # Zero
    /\ Len(vec_a) = 2
    /\ Len(vec_b) = 2
    /\ SquaredMagnitude(vec_a) # SquaredMagnitude(vec_b)

\* C29: the wait a check returns is determined by the pool it found on
\* entry, rolled if its window had expired at the time of the check: zero
\* exactly when that pool's usage plus the estimate is within the limit, and
\* otherwise what remains of the window, which is more than nothing and at
\* most a whole window.
C29_WaitOfCheck ==
    [][\A w \in Workers, c \in Classes :
         (workers[w].cls = c /\ DecideStep(w)) =>
            LET p == RollWindow(workers[w].snap, workers[w].t)
                wait == workers'[w].wait
            IN /\ wait = 0 <=> p.used + workers[w].estimate <= LimitOf(c)
               /\ wait # 0 =>
                    /\ wait = WindowLength - (workers[w].t - p.windowStart)
                    /\ wait > 0
                    /\ wait <= WindowLength]_vars

\* A check made two ticks into a window that holds usage was refused for an
\* estimate within the limit and returned the one tick that remained.
C29_Witness ==
    \E w \in Workers :
        /\ workers[w].pc = "send"
        /\ workers[w].wait = WindowLength - 2
        /\ workers[w].wait > 0
        /\ ~workers[w].rolled
        /\ workers[w].estimate <= LimitOf(workers[w].cls)
        /\ OwnPool(workers[w].cls).windowStart = 0
        /\ now = 2

\* C30: a check that finds the window of its pool not expired leaves the
\* pool, usage and window start, as it found it on entry, whether it returns
\* zero or a wait; the usage of a pool changes only in an update's addition
\* or in the reset of a window roll, and its window start only in a roll.
C30_CheckFrame ==
    [][\A c \in Classes :
         /\ \A w \in Workers :
              (/\ workers[w].cls = c
               /\ DecideStep(w)
               /\ workers[w].t - workers[w].snap.windowStart < WindowLength)
              => OwnPool(c)' = workers[w].snap
         /\ OwnPool(c)'.used # OwnPool(c).used =>
              \E w \in Workers :
                 /\ workers[w].cls = c
                 /\ workers[w].pc \in {"update_add", "check_reset", "update_reset"}
                 /\ workers'[w] # workers[w]
         /\ OwnPool(c)'.windowStart # OwnPool(c).windowStart =>
              \E w \in Workers :
                 /\ workers[w].cls = c
                 /\ workers[w].pc \in {"check_roll", "update_roll"}
                 /\ workers'[w] # workers[w]]_vars

\* A check passed with zero wait on a window that was not expired and held
\* usage, and that usage is still what the pool holds, the passed estimate
\* not added.
C30_Witness ==
    \E w \in Workers :
        /\ workers[w].pc = "send"
        /\ workers[w].wait = 0
        /\ ~workers[w].rolled
        /\ workers[w].estimate = 2
        /\ OwnPool(workers[w].cls).used = 1
        /\ lock[workers[w].cls] = 0
        /\ ops_started = 2

(***************************************************************************)
(* Claims C31 to C39.                                                      *)
(***************************************************************************)
\* C31: an update that finds the window of its pool not expired adds exactly
\* its amount to the usage it found and leaves the window start as it was;
\* an update that finds the window expired starts a new window at the time
\* of the update, whose usage is then exactly its amount.
C31_UpdateAdds ==
    [][\A w \in Workers, c \in Classes :
         (workers[w].cls = c /\ workers[w].pc = "update_add" /\ workers'[w].pc = "done") =>
            IF workers[w].t - workers[w].snap.windowStart < WindowLength
            THEN OwnPool(c)' = [used |-> workers[w].snap.used + workers[w].actual,
                                windowStart |-> workers[w].snap.windowStart]
            ELSE OwnPool(c)' = [used |-> workers[w].actual,
                                windowStart |-> workers[w].t]]_vars

\* Two updates of one class ran in the window that started with the client:
\* the pool holds the sum of their amounts, one and four tokens.
C31_Witness ==
    \E c \in Classes :
        /\ OwnPool(c) = [used |-> 5, windowStart |-> 0]
        /\ lock[c] = 0
        /\ ops_started = 2
        /\ \A w \in Workers : workers[w].pc = "done"

\* The position of a task state in the course of an operation.
StageOf(t) ==
    CASE t = "none" -> 0
      [] t = "check" -> 1
      [] t = "sleep" -> 2
      [] t = "send" -> 3
      [] t = "await" -> 4
      [] t = "deliver" -> 5
      [] t = "push" -> 6
      [] OTHER -> 7

\* The usage held by the pool of the operation's class.
PoolUsed ==
    IF op \in RerankOps
    THEN rerank_limiter.reranking.used
    ELSE embed_limiter.embeddings.used

\* A step of an embedding or rerank operation keeps the order of the stages:
\* the wait is set by the check only, the request leaves only after check
\* and sleep, and usage is recorded only in the step in which the response
\* arrives.
OrderedStep ==
    op \in RerankOps \cup EmbedOps =>
        /\ task' # task => StageOf(task) < StageOf(task')
        /\ wait_time' # wait_time => task = "check"
        /\ transport_calls' # transport_calls => (task = "send" /\ task' = "await")
        /\ PoolUsed' # PoolUsed => (task = "await" /\ task' = "deliver")

\* C32: an embedding or rerank operation passes through check, an optional
\* sleep, the transport call, update and delivery in this order: usage is
\* never recorded before the response has arrived, and it has been recorded
\* when the first item enters the channel, the result enters the handoff, or
\* either reaches the caller.
C32_StepOrder ==
    /\ [](op \in RerankOps \cup EmbedOps =>
            /\ PoolUsed # 0 => (outcome.kind = "response" /\ transport_calls = 1)
            /\ (\/ chan # <<>>
                \/ delivered # <<>>
                \/ slot.kind = "Ok"
                \/ handle.kind = "Ok") => UsageRecorded)
    /\ [][OrderedStep]_vars

\* A rerank stream whose check returned a wait of whole seconds: the task
\* slept, called the transport once, recorded the reported usage and the
\* consumer received the first item.
C32_Witness ==
    /\ op = "find_similar_documents"
    /\ task = "push"
    /\ Len(delivered) = 1
    /\ as_secs(wait_time) > 0
    /\ transport_calls = 1
    /\ rerank_limiter.reranking.used = outcome.total_tokens

\* The positions a call passes on its way to the transport, in order.
CheckStage(pc) ==
    CASE pc = "check" -> 1
      [] pc = "check_roll" -> 2
      [] pc = "check_reset" -> 3
      [] pc = "check_decide" -> 4
      [] pc = "sleep" -> 5
      [] pc = "send" -> 6
      [] OTHER -> 7

\* A step of call w on its way to the transport: it never returns to an
\* earlier position (one check, at most one sleep, no check again), the wait
\* it is given is at most a window, and a sleep that ends has lasted no
\* longer than the wait.
StraightToTransport(w) ==
    /\ (workers[w].pc \notin {"idle", "done"} /\ workers'[w].pc # workers[w].pc) =>
          /\ CheckStage(workers[w].pc) < 7 => CheckStage(workers[w].pc) < CheckStage(workers'[w].pc)
          /\ workers'[w].pc \notin {"check", "check_roll", "check_reset", "check_decide", "sleep"}
                \/ CheckStage(workers[w].pc) < 5
    /\ DecideStep(w) => (workers'[w].wait >= 0 /\ workers'[w].wait <= WindowLength)
    /\ workers'[w].pc = "sleep" => workers'[w].wait <= WindowLength

\* C33: the limiter never blocks a call for good: a call checks once, sleeps
\* at most once and at most a window, and goes on to its transport call
\* without a second check; every call that has started, also one whose
\* estimate exceeds the limit of its pool and also with other calls
\* contending for the pool, eventually issues its transport call.
C33_NeverBlocksForGood ==
    /\ [][\A w \in Workers : StraightToTransport(w)]_vars
    /\ \A w \in Workers :
          (workers[w].pc \in {"check", "check_roll", "check_reset", "check_decide",
                              "sleep", "send"})
          ~> (workers[w].pc \in {"update", "update_roll", "update_reset", "update_add",
                                 "done"})

\* Two calls of one class contend for the pool; one of them, whose estimate
\* exceeds the limit, was refused for a whole window, slept it out and is
\* about to issue its transport call.
C33_Witness ==
    \E w, v \in Workers :
        /\ w # v
        /\ workers[w].cls = workers[v].cls
        /\ workers[w].pc = "send"
        /\ workers[w].estimate > LimitOf(workers[w].cls)
        /\ workers[w].wait = WindowLength
        /\ workers[v].pc \in {"check", "update"}

\* The ranked list of a call that succeeded (empty otherwise).
RankedList == IF performed.kind = "Ok" THEN performed.value.data ELSE <<>>

\* The ranked list has a first entry and that entry names a document of the
\* caller.
FirstEntryUsable ==
    RankedList # <<>> /\ IndexInBounds(RankedList[1], documents)

\* C34: on the same query, documents and answer most_similar_document and
\* find_similar_documents agree: the handle resolves Ok exactly when the
\* stream, read to its end, has yielded an item, which is when the ranked
\* list has a usable first entry; the handle's value is then the item the
\* stream builds first, and the stream's first item is the value the handle
\* computes.
C34_Top1AgreesWithStream ==
    /\ (op = "most_similar_document" /\ caller = "resolved") =>
          /\ handle.kind = "Ok" <=> FirstEntryUsable
          /\ FirstEntryUsable =>
                handle.value = StreamItem("find_similar_documents", RankedList, 1, documents)
    /\ (op = "find_similar_documents" /\ caller = "ended") =>
          /\ delivered # <<>> <=> FirstEntryUsable
          /\ FirstEntryUsable =>
                Ok(delivered[1]) = MostSimilarResult(performed, documents)

\* The server ranked the second document first among two results; the
\* handle of most_similar_document resolved to it with rank 0.
C34_Witness ==
    /\ op = "most_similar_document"
    /\ caller = "resolved"
    /\ handle.kind = "Ok"
    /\ Len(RankedList) = 2
    /\ RankedList[1].index = 1
    /\ handle.value.rank = 0
    /\ handle.value.document = documents[2]

\* C35: a call that does not succeed, by a transport error, a status other
\* than 200 or a 200 body that does not parse, never records usage: the step
\* in which it fails and every step after it leave the usage of both
\* limiters' pools as they were.
C35_FailedCallNoUpdate ==
    [][(op \in RerankOps \cup EmbedOps /\ performed'.kind = "Err") =>
         /\ rerank_limiter'.reranking.used = rerank_limiter.reranking.used
         /\ rerank_limiter'.embeddings.used = rerank_limiter.embeddings.used
         /\ embed_limiter'.reranking.used = embed_limiter.reranking.used
         /\ embed_limiter'.embeddings.used = embed_limiter.embeddings.used]_vars

\* An embedding call was answered 200 with a body that does not parse: it
\* resolved to the parse error after one transport call and its pool holds
\* no usage.
C35_Witness ==
    /\ op = "embed"
    /\ caller = "resolved"
    /\ outcome.kind = "response"
    /\ outcome.status = StatusOk
    /\ ~outcome.parses
    /\ handle = Err(FromSerdeError)
    /\ transport_calls = 1
    /\ embed_limiter.embeddings.used = 0

\* C36: a successful result of create_embedding has a data list that is not
\* empty: the server's list, or one placeholder vector when the server's
\* list is empty; so embed never fails on the first vector: its task does
\* not panic, and for every 200 answer that parses its handle resolves to
\* Ok with the first vector of that list.
C36_DataNeverEmpty ==
    /\ (op \in EmbedOps /\ performed.kind = "Ok") =>
          /\ performed.value.data # <<>>
          /\ performed.value.data =
               IF outcome.data = <<>>
               THEN <<EmbeddingData(<<PlaceholderValue>>, 0)>>
               ELSE outcome.data
    /\ op = "embed" =>
          /\ task # "panicked"
          /\ (/\ outcome.kind = "response"
              /\ outcome.status = StatusOk
              /\ outcome.parses
              /\ caller = "resolved") =>
                handle = Ok(performed.value.data[1].embedding)

\* The server answered embed with 200 and an empty data list; the handle
\* resolved to the placeholder vector.
C36_Witness ==
    /\ op = "embed"
    /\ caller = "resolved"
    /\ outcome.kind = "response"
    /\ outcome.status = StatusOk
    /\ outcome.parses
    /\ outcome.data = <<>>
    /\ handle = Ok(<<PlaceholderValue>>)

\* C37 as stated: embed_stream returns a stream for every list of texts, the
\* empty list included, without a panic in the caller, and the task behind
\* the stream has been spawned.
C37_Original ==
    op = "embed_stream" =>
        /\ caller \in {"holding", "ended", "dropped"}
        /\ task # "none"

\* The positions of the ranked list whose index names no document of the
\* caller.
BadPositions ==
    {k \in 1..Len(RankedList) : RankedList[k].index >= Len(documents)}

\* The first such position.
FirstBad == CHOOSE k \in BadPositions : \A j \in BadPositions : k <= j

\* C38 as stated: when some result of the ranked list has an index that is
\* out of bounds, the stream read to its end has yielded exactly the items
\* before that result, its task having panicked there, and
\* most_similar_document resolves to the 'task canceled' error.
C38_Original ==
    BadPositions # {} =>
        /\ (op = "find_similar_documents" /\ caller = "ended") =>
              (task = "panicked" /\ Len(delivered) = FirstBad - 1)
        /\ (op = "most_similar_document" /\ caller = "resolved") =>
              IsCanceledError(handle)

\* C38 amended: when some result has an index that is out of bounds, the
\* stream's task panics at the first such result: the stream read to its end
\* has yielded exactly the items before it, each with the document its index
\* names, and has ended.  most_similar_document looks at the first result
\* only: it resolves to the 'task canceled' error when the first result is
\* the one out of bounds, and to Ok with the first result otherwise.
C38_PanicAtBadIndex ==
    BadPositions # {} =>
        /\ op = "find_similar_documents" =>
              /\ Len(delivered) + Len(chan) < FirstBad
              /\ \A i \in 1..Len(delivered) :
                    delivered[i] = [rank |-> i - 1,
                                    similarity |-> RankedList[i].relevance_score,
                                    document |-> documents[RankedList[i].index + 1]]
              /\ caller = "ended" => (task = "panicked" /\ Len(delivered) = FirstBad - 1)
              /\ task = "done" => send_failed = 1
        /\ (op = "most_similar_document" /\ caller = "resolved") =>
              IF FirstBad = 1
              THEN IsCanceledError(handle) /\ task = "panicked"
              ELSE handle = Ok([rank |-> 0,
                                similarity |-> RankedList[1].relevance_score,
                                document |-> documents[RankedList[1].index + 1]])

\* The second of two results has an index out of bounds: the stream yielded
\* the first item and ended, its task having panicked.
C38_Witness ==
    /\ op = "find_similar_documents"
    /\ caller = "ended"
    /\ Len(RankedList) = 2
    /\ BadPositions = {2}
    /\ Len(delivered) = 1
    /\ task = "panicked"

\* The positions of the rust blocks of the document.
RustBlocks == {k \in 1..Len(code_task.blocks) : code_task.blocks[k].language = "rust"}

\* A call or a parse has failed in the block at hand.
BlockFailed ==
    \/ \E k \in 1..Len(code_task.calls) : ~code_task.calls[k].ok
    \/ /\ code_task.pc = "done"
       /\ code_task.result = Err(TokenizerError)

\* C39: embed_code issues the text call first and the AST call second, the
\* AST call only right after a successful text call of the same code and only
\* when the code parses as Rust; a failed call is the last call issued and its
\* error is what is returned; Ok is returned by embed_code only after both
\* calls succeeded, and by embed_markdown only with one embedding for every
\* rust block, two successful calls each: never a partial list.
C39_TextThenAst ==
    LET calls == code_task.calls
    IN /\ \A k \in 1..Len(calls) :
            /\ calls[k].input = "ast" =>
                 /\ k > 1
                 /\ calls[k - 1] = [block |-> calls[k].block, input |-> "text", ok |-> TRUE]
                 /\ code_task.blocks[calls[k].block].parses
            /\ calls[k].input = "text" /\ k > 1 =>
                 /\ calls[k - 1].input = "ast"
                 /\ calls[k - 1].block < calls[k].block
            /\ ~calls[k].ok =>
                 /\ k = Len(calls)
                 /\ code_task.pc = "done"
                 /\ code_task.result.kind = "Err"
                 /\ code_task.result # Err(TokenizerError)
       /\ code_task.pc = "done" /\ code_task.result = Err(TokenizerError) =>
            /\ ~code_task.blocks[code_task.i].parses
            /\ calls # <<>>
            /\ calls[Len(calls)] = [block |-> code_task.i, input |-> "text", ok |-> TRUE]
       /\ code_task.pc = "done" /\ code_task.result.kind = "Ok" =>
            /\ \A k \in 1..Len(calls) : calls[k].ok
            /\ code_task.entry = "embed_code" => Len(calls) = 2
            /\ code_task.entry = "embed_markdown" =>
                 /\ Len(code_task.result.value) = Cardinality(RustBlocks)
                 /\ Len(calls) = 2 * Cardinality(RustBlocks)
       /\ code_task.pc = "done" /\ code_task.entry = "embed_markdown" /\ BlockFailed =>
            /\ code_task.result.kind = "Err"
            /\ \A k \in 1..Len(calls) : calls[k].block <= code_task.i

\* embed_markdown embedded its first rust block, the text call of its second
\* rust block failed, and the error came back with no call after it.
C39_Witness ==
    /\ code_task.pc = "done"
    /\ code_task.entry = "embed_markdown"
    /\ Len(code_task.calls) = 3
    /\ code_task.calls[2] = [block |-> 1, input |-> "ast", ok |-> TRUE]
    /\ code_task.calls[3] = [block |-> 2, input |-> "text", ok |-> FALSE]
    /\ Len(code_task.embeddings) = 1
    /\ code_task.result.kind = "Err"

=============================================================================
